---------------------------- MODULE Spec2Model ----------------------------
(***************************************************************************)
(* Hybrid movie query engine (agent/agent.py), its index builder           *)
(* (extractmovie/createindexes.py), the vector-store loader                *)
(* (loadmovie/loadmovie.py) and the query flow of Main.py.                 *)
(*                                                                         *)
(* Text is a sequence of one-character strings, so that lower(), strip(),  *)
(* split(), the regular expressions and substring containment are computed *)
(* on characters the way Python computes them.  A Python dict is a         *)
(* sequence of <<key, value>> pairs in insertion order; a value is tagged  *)
(* with its Python type.                                                   *)
(***************************************************************************)
EXTENDS Integers, Sequences, FiniteSets, TLC

(***************************************************************************)
(* Bounds of the model.                                                    *)
(***************************************************************************)
\* largest number of AND-separated clauses in an enumerated query
MaxClauses == 2
\* largest result cap n_results passed to search
MaxCap == 2
\* number of catalog records of the large catalog
MaxCatalog == 6

(***************************************************************************)
(* Characters and Python's str methods.                                    *)
(***************************************************************************)
\* "^2" stands for the single character SUPERSCRIPT TWO: str.isdigit() is
\* True for it, int() and the regex class \d reject it.
SUP2 == "^2"

IsSpace(c) == c = " "

IsDecimal(c) == c \in {"0", "1", "2", "3", "4", "5", "6", "7", "8", "9"}

\* str.isdigit() on one character
IsDigitChar(c) == IsDecimal(c) \/ c = SUP2

DigitVal(c) ==
    CASE c = "0" -> 0 [] c = "1" -> 1 [] c = "2" -> 2 [] c = "3" -> 3
      [] c = "4" -> 4 [] c = "5" -> 5 [] c = "6" -> 6 [] c = "7" -> 7
      [] c = "8" -> 8 [] c = "9" -> 9

DigitChar(n) ==
    CASE n = 0 -> "0" [] n = 1 -> "1" [] n = 2 -> "2" [] n = 3 -> "3"
      [] n = 4 -> "4" [] n = 5 -> "5" [] n = 6 -> "6" [] n = 7 -> "7"
      [] n = 8 -> "8" [] n = 9 -> "9"

\* str.lower() on one character (the upper-case letters of the model's texts)
LowerChar(c) ==
    CASE c = "A" -> "a" [] c = "B" -> "b" [] c = "C" -> "c" [] c = "D" -> "d"
      [] c = "F" -> "f" [] c = "H" -> "h" [] c = "N" -> "n" [] c = "R" -> "r"
      [] c = "U" -> "u" [] c = "W" -> "w" [] c = "Z" -> "z"
      [] OTHER -> c

\* str.lower()
RECURSIVE Lower(_)
Lower(s) == IF Len(s) = 0 THEN <<>> ELSE <<LowerChar(s[1])>> \o Lower(Tail(s))

\* str.lstrip(), str.rstrip(), str.strip()
RECURSIVE LStrip(_)
LStrip(s) == IF Len(s) > 0 /\ IsSpace(s[1]) THEN LStrip(Tail(s)) ELSE s

RECURSIVE RStrip(_)
RStrip(s) ==
    IF Len(s) > 0 /\ IsSpace(s[Len(s)]) THEN RStrip(SubSeq(s, 1, Len(s) - 1)) ELSE s

Strip(s) == RStrip(LStrip(s))

\* t occurs in s at position i
MatchAt(s, i, t) ==
    /\ i >= 1
    /\ i + Len(t) - 1 <= Len(s)
    /\ \A j \in 1..Len(t) : s[i + j - 1] = t[j]

\* Python's "t in s" on strings
Contains(s, t) == \E i \in 1..(Len(s) + 1) : MatchAt(s, i, t)

\* str.startswith / str.endswith
StartsWith(s, t) == MatchAt(s, 1, t)

EndsWith(s, t) == MatchAt(s, Len(s) - Len(t) + 1, t)

\* str.isdigit(): non-empty and every character a digit character
IsDigitStr(s) == Len(s) > 0 /\ \A i \in 1..Len(s) : IsDigitChar(s[i])

\* str.split(sep): left-to-right, non-overlapping occurrences of sep
RECURSIVE Split(_, _)
Split(s, sep) ==
    LET at == {i \in 1..Len(s) : MatchAt(s, i, sep)}
    IN  IF at = {} THEN <<s>>
        ELSE LET i == CHOOSE k \in at : \A j \in at : k <= j
             IN  <<SubSeq(s, 1, i - 1)>> \o Split(SubSeq(s, i + Len(sep), Len(s)), sep)

\* sep.join(parts)
RECURSIVE Join(_, _)
Join(parts, sep) ==
    IF Len(parts) = 0 THEN <<>>
    ELSE IF Len(parts) = 1 THEN parts[1]
    ELSE parts[1] \o sep \o Join(Tail(parts), sep)

\* value of a string of decimal digits
RECURSIVE DecimalValue(_)
DecimalValue(s) ==
    IF Len(s) = 0 THEN 0
    ELSE 10 * DecimalValue(SubSeq(s, 1, Len(s) - 1)) + DigitVal(s[Len(s)])

\* int(s): surrounding whitespace is ignored; anything but decimal digits
\* raises ValueError (ok = FALSE)
PyInt(s) ==
    LET t == Strip(s)
    IN  IF Len(t) > 0 /\ \A i \in 1..Len(t) : IsDecimal(t[i])
        THEN [ok |-> TRUE, value |-> DecimalValue(t)]
        ELSE [ok |-> FALSE, value |-> 0]

\* str(n) for a natural number
RECURSIVE NatStr(_)
NatStr(n) ==
    IF n < 10 THEN <<DigitChar(n)>>
    ELSE NatStr(n \div 10) \o <<DigitChar(n % 10)>>

(***************************************************************************)
(* Python values and dicts.                                                *)
(***************************************************************************)
None == [t |-> "none"]
Str(s) == [t |-> "str", s |-> s]
Num(n) == [t |-> "num", n |-> n]
List(l) == [t |-> "list", l |-> l]
\* a dict as a value (a JSON object inside a payload)
Dict(d) == [t |-> "dict", d |-> d]
\* a str holding a response text, kept as the sequence of its tokens
Text(tokens) == [t |-> "text", tokens |-> tokens]

\* truth value of a Python value ("if v:")
Truthy(v) ==
    CASE v.t = "none" -> FALSE
      [] v.t = "str"  -> Len(v.s) > 0
      [] v.t = "num"  -> v.n # 0
      [] v.t = "list" -> Len(v.l) > 0
      [] v.t = "dict" -> Len(v.d) > 0
      [] v.t = "text" -> Len(v.tokens) > 0

\* str(v) for the scalar values of the model
PyStr(v) ==
    CASE v.t = "none" -> <<"N", "o", "n", "e">>
      [] v.t = "str"  -> v.s
      [] v.t = "num"  -> NatStr(v.n)

HasKey(d, k) == \E i \in 1..Len(d) : d[i][1] = k

\* dict.get(k, default)
Get(d, k, default) ==
    IF HasKey(d, k)
    THEN d[CHOOSE i \in 1..Len(d) : d[i][1] = k][2]
    ELSE default

\* Python's d1 == d2 on dicts: the same keys with the same values, in any order
DictEq(d1, d2) ==
    /\ {d1[i][1] : i \in 1..Len(d1)} = {d2[i][1] : i \in 1..Len(d2)}
    /\ \A i \in 1..Len(d1) : Get(d2, d1[i][1], None) = d1[i][2]

\* json.dumps(d): the text lists the members in the dict's insertion order,
\* each as its key followed by its value
JsonDumps(d) ==
    [i \in 1..(2 * Len(d)) |->
        IF i % 2 = 1 THEN [t |-> "key", k |-> d[(i + 1) \div 2][1]]
        ELSE d[i \div 2][2]]

\* json.loads of such a text: the members in the order of the text
JsonLoads(text) ==
    [i \in 1..(Len(text) \div 2) |-> <<text[2 * i - 1].k, text[2 * i]>>]

\* the elements of a list as a set
Range(seq) == {seq[i] : i \in 1..Len(seq)}

(***************************************************************************)
(* The catalog (extractmovie.py writes every record with the same keys in  *)
(* the same order).                                                        *)
(***************************************************************************)
Movie(title, genres, date, rating, overview, actors, director, runtime, companies, popularity) ==
    << <<"title", title>>, <<"genres", genres>>, <<"release_date", date>>,
       <<"rating", rating>>, <<"overview", overview>>, <<"actors", actors>>,
       <<"director", director>>, <<"runtime", runtime>>,
       <<"production_companies", companies>>, <<"popularity", popularity>> >>

T_Up   == <<"U", "p">>
T_Heat == <<"H", "e", "a", "t">>
T_Her  == <<"H", "e", "r">>
T_Ran  == <<"R", "a", "n">>
T_Up2  == <<"U", "p", " ", "2">>
T_Run  == <<"R", "u", "n">>
T_Zed  == <<"Z", "e", "d">>
N_Al   == <<"A", "l">>
N_Bo   == <<"B", "o">>
N_BoSp == <<"B", "o", " ">>
N_Cy   == <<"C", "y">>
N_Di   == <<"D", "i">>
N_Fox  == <<"F", "o", "x">>
G_War  == <<"W", "a", "r">>
G_Noir == <<"N", "o", "i", "r">>
D_2014 == <<"2", "0", "1", "4", "-", "0", "1">>
D_2015 == <<"2", "0", "1", "5">>
D_2016 == <<"2", "0", "1", "6", "-", "0", "5">>
D_Sup  == <<SUP2, "0", "1", "9">>
D_NA   == <<"N", "/", "A">>
O_a    == <<"a">>
O_b    == <<"b">>

AllMovies ==
    << Movie(Str(T_Up), List(<<G_War>>), Str(D_2016), Num(7), Str(O_a),
             List(<<N_Al, N_Bo>>), Str(N_Cy), Num(9), List(<<N_Fox>>), Num(1)),
       Movie(Str(T_Heat), List(<<G_War, G_Noir>>), Str(D_2015), Num(8), Str(O_b),
             List(<<N_Al>>), None, Num(9), List(<<N_Fox>>), Num(2)),
       Movie(Str(T_Her), List(<<G_Noir>>), Str(D_2014), Num(7), Str(O_a),
             List(<<N_BoSp>>), Str(N_Cy), Num(8), List(<<N_Fox>>), Num(3)),
       Movie(Str(T_Ran), List(<<G_War>>), Str(D_Sup), Num(6), Str(O_b),
             List(<<N_Al, N_Al>>), Str(N_Di), Num(8), List(<<N_Fox>>), Num(4)),
       Movie(Str(T_Up2), List(<<G_War, G_Noir>>), Str(D_2016), Num(5), Str(O_a),
             List(<<N_Al, N_Bo>>), Str(N_Cy), Num(7), List(<<N_Fox>>), Num(5)),
       Movie(Str(T_Run), List(<<>>), Str(D_NA), Num(4), Str(O_b),
             List(<<N_Bo>>), Str(N_Di), Num(7), List(<<N_Fox>>), Num(6)),
       Movie(Str(T_Zed), List(<<G_Noir>>), Str(D_2016), Num(3), Str(O_a),
             List(<<N_Al>>), Str(N_Di), Num(6), List(<<N_Fox>>), Num(7)),
       Movie(Str(T_Zed), List(<<G_War>>), Str(D_2014), Num(2), Str(O_b),
             List(<<N_Bo>>), None, Num(6), List(<<>>), Num(8)) >>

\* the catalogs a run may start from: none, a small one, the large one
Catalogs ==
    {SubSeq(AllMovies, 1, k) : k \in {0, 3, IF MaxCatalog <= Len(AllMovies) THEN MaxCatalog ELSE Len(AllMovies)}}

(***************************************************************************)
(* IndexBuilder.build_indexes (createindexes.py).  An index is a dict in   *)
(* insertion order: a sequence of <<key, list of records>>.                *)
(***************************************************************************)
Facets == {"actor", "director", "genre", "company", "year"}

\* the values of a list-valued attribute; nothing when it is not a list
ListValues(movie, k) ==
    LET v == Get(movie, k, List(<<>>))
    IN  IF v.t = "list" THEN v.l ELSE <<>>

\* for v in values: if v: ...[v.lower()]: the keys, in the order of the values
LowerKeys(values) ==
    LET kept == SelectSeq(values, LAMBDA v : Len(v) > 0)
    IN  [i \in 1..Len(kept) |-> Lower(kept[i])]

\* release_year: the text before the first "-" of a non-empty release date
ReleaseYear(movie) ==
    LET d == Get(movie, "release_date", Str(<<>>))
    IN  IF Truthy(d) THEN Split(d.s, <<"-">>)[1] ELSE <<>>

\* the keys of one facet that one iteration of the loop of build_indexes
\* appends the movie under, in the order of the appends
MovieKeys(movie, facet) ==
    CASE facet = "year" ->
            LET year == ReleaseYear(movie)
            IN  IF Len(year) > 0 /\ IsDigitStr(year) THEN <<year>> ELSE <<>>
      [] facet = "actor" -> LowerKeys(ListValues(movie, "actors"))
      [] facet = "director" ->
            LET director == Get(movie, "director", None)
            IN  IF Truthy(director) THEN <<Lower(director.s)>> ELSE <<>>
      [] facet = "company" -> LowerKeys(ListValues(movie, "production_companies"))
      [] facet = "genre" -> LowerKeys(ListValues(movie, "genres"))

\* every append of the loop to one facet's defaultdict, in order: <<key, movie>>
RECURSIVE Appends(_, _)
Appends(movies, facet) ==
    IF Len(movies) = 0 THEN <<>>
    ELSE LET keys == MovieKeys(movies[Len(movies)], facet)
         IN  Appends(SubSeq(movies, 1, Len(movies) - 1), facet)
                \o [i \in 1..Len(keys) |-> <<keys[i], movies[Len(movies)]>>]

\* the defaultdict(list) these appends leave: a key is inserted by its first
\* append, and its list holds the movies in the order they were appended
AppendAll(appends) ==
    LET firsts == {i \in 1..Len(appends) : \A j \in 1..(i - 1) : appends[j][1] # appends[i][1]}
        nth(n) == CHOOSE i \in firsts : Cardinality({j \in firsts : j <= i}) = n
        under(k) == SelectSeq(appends, LAMBDA a : a[1] = k)
    IN  [n \in 1..Cardinality(firsts) |->
            <<appends[nth(n)][1], [i \in 1..Len(under(appends[nth(n)][1])) |-> under(appends[nth(n)][1])[i][2]]>>]

\* IndexBuilder.build_indexes
build_indexes(movies) == [f \in Facets |-> AppendAll(Appends(movies, f))]

\* save_indexes: one file per facet, holding the index as it was built
save_indexes(built) == [f \in Facets |-> [exists |-> TRUE, content |-> built[f]]]

\* an index file that is not there
Missing == [exists |-> FALSE, content |-> <<>>]

\* a dict with its keys in the opposite order
ReverseKeys(d) == [i \in 1..Len(d) |-> d[Len(d) + 1 - i]]

\* an index file written again by a tool that orders the keys of every
\* record differently: the same JSON objects, the same lists
Rewritten(file) ==
    [exists |-> file.exists,
     content |-> [i \in 1..Len(file.content) |->
                    <<file.content[i][1],
                      [j \in 1..Len(file.content[i][2]) |-> ReverseKeys(file.content[i][2][j])]>>]]

\* the index files a start can find, given the files save_indexes wrote: all
\* of them, all but one, or one of them rewritten
IndexFileStates(saved) ==
    {saved}
    \cup {[saved EXCEPT ![f] = Missing] : f \in Facets}
    \cup {[saved EXCEPT ![f] = Rewritten(saved[f])] : f \in Facets}

\* _load_index with the test of path.exists() inverted
LoadIndexInverted(file) == IF file.exists THEN <<>> ELSE file.content

\* MovieSearchAgent._load_index: the file's content, or {} when it is missing
LoadIndex(file) == IF file.exists THEN file.content ELSE <<>>

(***************************************************************************)
(* loadmovie.py: the vector collection.                                    *)
(***************************************************************************)
\* safe_str
safe_str(v) ==
    CASE v.t = "none" -> <<>>
      [] v.t = "list" -> Join(v.l, <<",", " ">>)
      [] OTHER -> PyStr(v)

\* metadata = {k: safe_str(v) for k, v in movie.items()}
Flatten(movie) == [i \in 1..Len(movie) |-> <<movie[i][1], Str(safe_str(movie[i][2]))>>]

\* movie_id = f"{title}_{release_date}"
MovieId(movie) ==
    safe_str(Get(movie, "title", None)) \o <<"_">> \o safe_str(Get(movie, "release_date", None))

\* embed_and_store_movies: collection.add per record, in the catalog's order;
\* an id already in the collection is not added again
embed_and_store_movies(movies) ==
    LET kept == {i \in 1..Len(movies) : \A j \in 1..(i - 1) : MovieId(movies[j]) # MovieId(movies[i])}
        nth(n) == CHOOSE i \in kept : Cardinality({j \in kept : j <= i}) = n
    IN  [n \in 1..Cardinality(kept) |->
            [id |-> MovieId(movies[nth(n)]), metadata |-> Flatten(movies[nth(n)])]]

(***************************************************************************)
(* MovieSearchAgent (agent.py): the trigger phrases of the five patterns.  *)
(***************************************************************************)
W_acted_by       == <<"a", "c", "t", "e", "d", " ", "b", "y">>
W_starring       == <<"s", "t", "a", "r", "r", "i", "n", "g">>
W_featuring      == <<"f", "e", "a", "t", "u", "r", "i", "n", "g">>
W_directed_by    == <<"d", "i", "r", "e", "c", "t", "e", "d", " ", "b", "y">>
W_by_director    == <<"b", "y", " ", "d", "i", "r", "e", "c", "t", "o", "r">>
W_produced_by    == <<"p", "r", "o", "d", "u", "c", "e", "d", " ", "b", "y">>
W_production     == <<"p", "r", "o", "d", "u", "c", "t", "i", "o", "n">>
W_distributed_by == <<"d", "i", "s", "t", "r", "i", "b", "u", "t", "e", "d", " ", "b", "y">>
W_genre_is       == <<"g", "e", "n", "r", "e", " ", "i", "s">>
W_genre_in       == <<"g", "e", "n", "r", "e", " ", "i", "n">>
W_type_is        == <<"t", "y", "p", "e", " ", "i", "s">>
W_after          == <<"a", "f", "t", "e", "r">>
W_before         == <<"b", "e", "f", "o", "r", "e">>
W_in             == <<"i", "n">>
SepAnd           == <<" ", "a", "n", "d", " ">>

ActorTriggers    == <<W_acted_by, W_starring, W_featuring>>
DirectorTriggers == <<W_directed_by, W_by_director>>
CompanyTriggers  == <<W_produced_by, W_production, W_distributed_by>>
GenreTriggers    == <<W_genre_is, W_genre_in, W_type_is>>
YearTriggers     == <<W_after, W_before, W_in>>

(***************************************************************************)
(* The clause texts the enumerated queries are made of.                    *)
(***************************************************************************)
Q_starring_al      == <<"s", "t", "a", "r", "r", "i", "n", "g", " ", "a", "l">>
Q_featuring_bo     == <<"F", "e", "a", "t", "u", "r", "i", "n", "g", " ", " ", "B", "o">>
Q_starring_zed     == <<"s", "t", "a", "r", "r", "i", "n", "g", " ", "z", "e", "d">>
Q_directed_by_cy   == <<"d", "i", "r", "e", "c", "t", "e", "d", " ", "b", "y", " ", "c", "y">>
Q_produced_by_fox  == <<"p", "r", "o", "d", "u", "c", "e", "d", " ", "b", "y", " ", "f", "o", "x">>
Q_genre_is_war     == <<"g", "e", "n", "r", "e", " ", "i", "s", " ", "w", "a", "r">>
Q_type_is_noir     == <<"t", "y", "p", "e", " ", "i", "s", " ", "n", "o", "i", "r">>
Q_after_2015       == <<"a", "f", "t", "e", "r", " ", "2", "0", "1", "5">>
Q_before_2015      == <<"b", "e", "f", "o", "r", "e", " ", "2", "0", "1", "5">>
Q_in_2015          == <<"i", "n", " ", "2", "0", "1", "5">>
Q_in_2020          == <<"i", "n", " ", "2", "0", "2", "0">>
Q_hope             == <<"h", "o", "p", "e">>
Q_love             == <<"l", "o", "v", "e">>

\* the clauses of the enumerated queries; the ones no pattern matches are the
\* texts the embedding model is asked to encode
StructuredTexts ==
    {Q_starring_al, Q_featuring_bo, Q_starring_zed, Q_directed_by_cy, Q_produced_by_fox,
     Q_genre_is_war, Q_type_is_noir, Q_after_2015, Q_before_2015, Q_in_2015, Q_in_2020}

SemanticTexts == {Q_hope, Q_love}

\* n_results of collection.query in search
TopK == 5

(***************************************************************************)
(* Regular expressions of _is_clause_structured and _filter_clause.        *)
(***************************************************************************)
\* last position of the run of whitespace starting at p (p - 1 when there is none)
RECURSIVE SpaceRunEnd(_, _)
SpaceRunEnd(s, p) ==
    IF p <= Len(s) /\ IsSpace(s[p]) THEN SpaceRunEnd(s, p + 1) ELSE p - 1

Min(S) == CHOOSE x \in S : \A y \in S : x <= y

NoMatch == [ok |-> FALSE, g1 |-> <<>>, g2 |-> <<>>]

\* r"(t)\s+(.+)" matches at position i: the trigger, one whitespace at least,
\* and one more character at least
ValueMatchAt(s, i, t) ==
    LET p == i + Len(t)
    IN  MatchAt(s, i, t) /\ p + 1 <= Len(s) /\ IsSpace(s[p])

\* re.search(r"(t1|t2|...)\s+(.+)", s): the leftmost match; \s+ is greedy but
\* leaves one character to (.+), which runs to the end of the text
SearchValue(s, triggers) ==
    LET hits == {i \in 1..Len(s) : \E k \in 1..Len(triggers) : ValueMatchAt(s, i, triggers[k])}
    IN  IF hits = {} THEN NoMatch
        ELSE LET i == Min(hits)
                 k == Min({j \in 1..Len(triggers) : ValueMatchAt(s, i, triggers[j])})
                 e == SpaceRunEnd(s, i + Len(triggers[k]))
                 from == IF e = Len(s) THEN Len(s) ELSE e + 1
             IN  [ok |-> TRUE, g1 |-> triggers[k], g2 |-> SubSeq(s, from, Len(s))]

\* r"(t)\s+(\d{4})" matches at position i
YearMatchAt(s, i, t) ==
    LET p == i + Len(t)
        e == SpaceRunEnd(s, p)
    IN  /\ MatchAt(s, i, t)
        /\ e >= p
        /\ e + 4 <= Len(s)
        /\ \A j \in 1..4 : IsDecimal(s[e + j])

\* re.search(r"(after|before|in)\s+(\d{4})", s)
SearchYear(s, triggers) ==
    LET hits == {i \in 1..Len(s) : \E k \in 1..Len(triggers) : YearMatchAt(s, i, triggers[k])}
    IN  IF hits = {} THEN NoMatch
        ELSE LET i == Min(hits)
                 k == Min({j \in 1..Len(triggers) : YearMatchAt(s, i, triggers[j])})
                 e == SpaceRunEnd(s, i + Len(triggers[k]))
             IN  [ok |-> TRUE, g1 |-> triggers[k], g2 |-> SubSeq(s, e + 1, e + 4)]

\* MovieSearchAgent._is_clause_structured
is_clause_structured(clause) ==
    LET c == Lower(Strip(clause))
    IN  \/ SearchValue(c, ActorTriggers).ok
        \/ SearchValue(c, DirectorTriggers).ok
        \/ SearchValue(c, CompanyTriggers).ok
        \/ SearchValue(c, GenreTriggers).ok
        \/ SearchYear(c, YearTriggers).ok

\* YearHolds with "after" and "before" taken inclusively
YearHoldsInclusive(relation, y_int, year) ==
    \/ relation = W_after /\ y_int >= year
    \/ relation = W_before /\ y_int <= year
    \/ relation = W_in /\ y_int = year

\* the relation test of the year scan
YearHolds(relation, y_int, year) ==
    \/ relation = W_after /\ y_int > year
    \/ relation = W_before /\ y_int < year
    \/ relation = W_in /\ y_int = year

\* for y, movies in self.indexes["year"].items(): ... results.extend(movies)
RECURSIVE YearScan(_, _, _)
YearScan(items, relation, year) ==
    IF Len(items) = 0 THEN <<>>
    ELSE LET y == PyInt(items[1][1])
             movies == IF y.ok /\ YearHolds(relation, y.value, year) THEN items[1][2] ELSE <<>>
         IN  movies \o YearScan(Tail(items), relation, year)

\* _filter_clause with the director pattern tried before the actor pattern
filter_clause_director_first(idx, clause) ==
    LET c == Lower(Strip(clause))
        actor == SearchValue(c, ActorTriggers)
        director == SearchValue(c, DirectorTriggers)
        company == SearchValue(c, CompanyTriggers)
        genre == SearchValue(c, GenreTriggers)
        year == SearchYear(c, YearTriggers)
    IN  IF director.ok THEN Get(idx["director"], Strip(director.g2), <<>>)
        ELSE IF actor.ok THEN Get(idx["actor"], Strip(actor.g2), <<>>)
        ELSE IF company.ok THEN Get(idx["company"], Strip(company.g2), <<>>)
        ELSE IF genre.ok THEN Get(idx["genre"], Strip(genre.g2), <<>>)
        ELSE IF year.ok THEN YearScan(idx["year"], year.g1, PyInt(year.g2).value)
        ELSE <<>>

\* MovieSearchAgent._filter_clause
filter_clause(idx, clause) ==
    LET c == Lower(Strip(clause))
        actor == SearchValue(c, ActorTriggers)
        director == SearchValue(c, DirectorTriggers)
        company == SearchValue(c, CompanyTriggers)
        genre == SearchValue(c, GenreTriggers)
        year == SearchYear(c, YearTriggers)
    IN  IF actor.ok THEN Get(idx["actor"], Strip(actor.g2), <<>>)
        ELSE IF director.ok THEN Get(idx["director"], Strip(director.g2), <<>>)
        ELSE IF company.ok THEN Get(idx["company"], Strip(company.g2), <<>>)
        ELSE IF genre.ok THEN Get(idx["genre"], Strip(genre.g2), <<>>)
        ELSE IF year.ok THEN YearScan(idx["year"], year.g1, PyInt(year.g2).value)
        ELSE <<>>

\* IndexAfterGet for an index that were a defaultdict read by subscript: a
\* key that is looked up and missing is inserted with an empty list
IndexAfterSubscript(index, key) ==
    IF HasKey(index, key) THEN index ELSE Append(index, <<key, <<>>>>)

\* self.indexes[...].get(key, []): the index after the lookup.  The indexes
\* are plain dicts (json.load), and dict.get inserts nothing
IndexAfterGet(index, key) == index

\* self.indexes after _filter_clause(clause): the value branches read one
\* index with get; the year branch iterates items() and extends a list of its
\* own
IndexesAfterFilter(idx, clause) ==
    LET c == Lower(Strip(clause))
        actor == SearchValue(c, ActorTriggers)
        director == SearchValue(c, DirectorTriggers)
        company == SearchValue(c, CompanyTriggers)
        genre == SearchValue(c, GenreTriggers)
    IN  IF actor.ok THEN [idx EXCEPT !["actor"] = IndexAfterGet(@, Strip(actor.g2))]
        ELSE IF director.ok THEN [idx EXCEPT !["director"] = IndexAfterGet(@, Strip(director.g2))]
        ELSE IF company.ok THEN [idx EXCEPT !["company"] = IndexAfterGet(@, Strip(company.g2))]
        ELSE IF genre.ok THEN [idx EXCEPT !["genre"] = IndexAfterGet(@, Strip(genre.g2))]
        ELSE idx

(***************************************************************************)
(* MovieSearchAgent.search.                                                *)
(***************************************************************************)
\* clauses = [c.strip() for c in query.lower().split(" and ") if c.strip()]
RECURSIVE StripNonEmpty(_)
StripNonEmpty(parts) ==
    IF Len(parts) = 0 THEN <<>>
    ELSE LET c == Strip(parts[1])
         IN  (IF Len(c) > 0 THEN <<c>> ELSE <<>>) \o StripNonEmpty(Tail(parts))

Clauses(query) == StripNonEmpty(Split(Lower(query), SepAnd))

\* self.indexes after search has gone through the first n clauses: the
\* structured ones went through _filter_clause, the lists it returned were
\* only iterated (set(json.dumps(m) for m in matches))
RECURSIVE IndexesAfterSearch(_, _, _)
IndexesAfterSearch(idx, clauses, n) ==
    IF n = 0 THEN idx
    ELSE LET before == IndexesAfterSearch(idx, clauses, n - 1)
         IN  IF is_clause_structured(clauses[n]) THEN IndexesAfterFilter(before, clauses[n])
             ELSE before

\* collection.query(query_embeddings=[embedding], n_results=5, include=["metadatas"]):
\* the metadata of the TopK entries nearest to the clause's embedding; near[clause]
\* ranks the collection's entries by their distance to it
VectorQuery(coll, near, clause) ==
    LET k == IF Len(coll) < TopK THEN Len(coll) ELSE TopK
    IN  [j \in 1..k |-> coll[near[clause][j]].metadata]

\* set(json.dumps(m) for m in matches)
DumpSet(matches) == {JsonDumps(m) : m \in Range(matches)}

\* SearchLoop with a structured clause that matches nothing skipped instead of
\* ending the search
RECURSIVE SearchLoopSkipEmpty(_, _, _, _, _, _, _)
SearchLoopSkipEmpty(idx, coll, near, clauses, i, semantic_sets, structured_sets) ==
    IF i > Len(clauses)
    THEN [aborted |-> Len(semantic_sets) + Len(structured_sets) = 0, evaluated |-> i - 1,
          semantic_sets |-> semantic_sets, structured_sets |-> structured_sets]
    ELSE LET clause == clauses[i]
             structured == is_clause_structured(clause)
             matches == IF structured THEN filter_clause(idx, clause)
                        ELSE VectorQuery(coll, near, clause)
         IN  IF Len(matches) = 0
             THEN IF structured
                  THEN SearchLoopSkipEmpty(idx, coll, near, clauses, i + 1, semantic_sets, structured_sets)
                  ELSE [aborted |-> TRUE, evaluated |-> i,
                        semantic_sets |-> semantic_sets, structured_sets |-> structured_sets]
             ELSE IF structured
             THEN SearchLoopSkipEmpty(idx, coll, near, clauses, i + 1, semantic_sets,
                                      Append(structured_sets, DumpSet(matches)))
             ELSE SearchLoopSkipEmpty(idx, coll, near, clauses, i + 1,
                                      Append(semantic_sets, DumpSet(matches)), structured_sets)

\* SearchLoop going through every clause before it returns [] for one that
\* matched nothing
RECURSIVE SearchLoopLateAbort(_, _, _, _, _, _, _)
SearchLoopLateAbort(idx, coll, near, clauses, i, semantic_sets, structured_sets) ==
    IF i > Len(clauses)
    THEN [aborted |-> \E j \in 1..Len(semantic_sets) : semantic_sets[j] = {},
          evaluated |-> i - 1,
          semantic_sets |-> semantic_sets, structured_sets |-> structured_sets]
    ELSE LET clause == clauses[i]
             structured == is_clause_structured(clause)
             matches == IF structured THEN filter_clause(idx, clause)
                        ELSE VectorQuery(coll, near, clause)
         IN  IF Len(matches) = 0
             THEN SearchLoopLateAbort(idx, coll, near, clauses, i + 1,
                                      Append(semantic_sets, {}), structured_sets)
             ELSE IF structured
             THEN SearchLoopLateAbort(idx, coll, near, clauses, i + 1, semantic_sets,
                                      Append(structured_sets, DumpSet(matches)))
             ELSE SearchLoopLateAbort(idx, coll, near, clauses, i + 1,
                                      Append(semantic_sets, DumpSet(matches)), structured_sets)

\* the for loop of search from clause i on; evaluated counts the clauses that
\* were classified before the loop ended
RECURSIVE SearchLoop(_, _, _, _, _, _, _)
SearchLoop(idx, coll, near, clauses, i, semantic_sets, structured_sets) ==
    IF i > Len(clauses)
    THEN [aborted |-> FALSE, evaluated |-> i - 1,
          semantic_sets |-> semantic_sets, structured_sets |-> structured_sets]
    ELSE LET clause == clauses[i]
             structured == is_clause_structured(clause)
             matches == IF structured THEN filter_clause(idx, clause)
                        ELSE VectorQuery(coll, near, clause)
         IN  IF Len(matches) = 0
             THEN [aborted |-> TRUE, evaluated |-> i,
                   semantic_sets |-> semantic_sets, structured_sets |-> structured_sets]
             ELSE IF structured
             THEN SearchLoop(idx, coll, near, clauses, i + 1, semantic_sets,
                             Append(structured_sets, DumpSet(matches)))
             ELSE SearchLoop(idx, coll, near, clauses, i + 1,
                             Append(semantic_sets, DumpSet(matches)), structured_sets)

\* Intersection keeping the first set only
IntersectionFirstOnly(sets) == sets[1]

\* Intersection taken as a union
IntersectionAsUnion(sets) == UNION {sets[i] : i \in 1..Len(sets)}

\* set.intersection(*sets), for one set at least
Intersection(sets) == {x \in sets[1] : \A i \in 1..Len(sets) : x \in sets[i]}

\* the serialized records of the catalog, as indexed and as stored in the collection
IndexedTexts == [i \in 1..Len(AllMovies) |-> JsonDumps(AllMovies[i])]

StoredTexts == [i \in 1..Len(AllMovies) |-> JsonDumps(Flatten(AllMovies[i]))]

RewrittenTexts == [i \in 1..Len(AllMovies) |-> JsonDumps(ReverseKeys(AllMovies[i]))]

\* position of a serialized record in the catalog
TextRank(text) ==
    Min({i \in 1..Len(AllMovies) :
            text = IndexedTexts[i] \/ text = StoredTexts[i] \/ text = RewrittenTexts[i]})

\* iteration order of a set of str: it follows the strings' hashes, which are
\* salted per process (seed); the model has two salts, giving the catalog's
\* order and its reverse
RECURSIVE IterationOrder(_, _)
IterationOrder(S, seed) ==
    IF S = {} THEN <<>>
    ELSE LET x == CHOOSE y \in S : \A z \in S :
                     IF seed = 0 THEN TextRank(y) <= TextRank(z) ELSE TextRank(y) >= TextRank(z)
         IN  <<x>> \o IterationOrder(S \ {x}, seed)

\* final_results = [json.loads(m) for m in final_set]
LoadAll(final_set, seed) ==
    LET order == IterationOrder(final_set, seed)
    IN  [i \in 1..Len(order) |-> JsonLoads(order[i])]

\* SearchResult with the structured sets joining the intersection when a
\* semantic clause is present
SearchResultAllSets(loop, n_results, seed) ==
    IF loop.aborted THEN <<>>
    ELSE LoadAll(Intersection(loop.semantic_sets \o loop.structured_sets), seed)

\* what search returns once the loop has ended; n_results bounds only what is
\* printed (final_results[:n_results]), the list returned is final_results
SearchResult(loop, n_results, seed) ==
    IF loop.aborted THEN <<>>
    ELSE IF Len(loop.semantic_sets) > 0
    THEN LoadAll(Intersection(loop.semantic_sets), seed)
    ELSE LoadAll(Intersection(loop.structured_sets), seed)

\* MovieSearchAgent.search(query, n_results): the list it returns and the
\* number of clauses it classified and resolved on the way
RunOf(loop, n_results, seed) ==
    [result |-> SearchResult(loop, n_results, seed), evaluated |-> loop.evaluated]

RunFrom(idx, coll, near, seed, clauses, n_results) ==
    IF Len(clauses) = 0 THEN [result |-> <<>>, evaluated |-> 0]
    ELSE RunOf(SearchLoop(idx, coll, near, clauses, 1, <<>>, <<>>), n_results, seed)

SearchRun(idx, coll, near, seed, query, n_results) ==
    RunFrom(idx, coll, near, seed, Clauses(query), n_results)

\* the list MovieSearchAgent.search(query, n_results) returns
search(idx, coll, near, seed, query, n_results) ==
    SearchRun(idx, coll, near, seed, query, n_results).result


(***************************************************************************)
(* The re-ranker's response text and parse_json_recommendations.  A text   *)
(* is a sequence of tokens: whitespace, the fence markers, a JSON value,   *)
(* or characters that are no JSON.                                         *)
(***************************************************************************)
WS == [k |-> "ws"]
\* the opening marker of a fenced json block (three backticks and json)
FenceJson == [k |-> "fence_json"]
\* the closing marker of a fenced block (three backticks)
Fence == [k |-> "fence"]
Junk == [k |-> "junk"]
JsonTok(v) == [k |-> "json", v |-> v]

\* str.strip() on a text
RECURSIVE TextLStrip(_)
TextLStrip(text) == IF Len(text) > 0 /\ text[1] = WS THEN TextLStrip(Tail(text)) ELSE text

RECURSIVE TextRStrip(_)
TextRStrip(text) ==
    IF Len(text) > 0 /\ text[Len(text)] = WS
    THEN TextRStrip(SubSeq(text, 1, Len(text) - 1)) ELSE text

TextStrip(text) == TextRStrip(TextLStrip(text))

\* json.loads(text): one JSON value, whitespace around it allowed; anything
\* else raises JSONDecodeError (ok = FALSE)
DecodeText(text) ==
    LET t == TextStrip(text)
    IN  IF Len(t) = 1 /\ t[1].k = "json"
        THEN [ok |-> TRUE, value |-> t[1].v]
        ELSE [ok |-> FALSE, value |-> None]

\* DecodeFenced without the removal of the fences
DecodeUnfenced(text) == DecodeText(text)

\* the first branch of parse_json_recommendations: strip, drop a leading
\* opening marker and a trailing closing marker, json.loads
DecodeFenced(text) ==
    LET c1 == TextStrip(text)
        c2 == IF Len(c1) > 0 /\ c1[1] = FenceJson THEN TextStrip(Tail(c1)) ELSE c1
        c3 == IF Len(c2) > 0 /\ c2[Len(c2)] = Fence
              THEN TextStrip(SubSeq(c2, 1, Len(c2) - 1)) ELSE c2
    IN  DecodeText(c3)

\* the value parse_json_recommendations works on: the decoded text, or the
\* dict it was given; any other type raises ValueError
ParsedOf(response_text) ==
    CASE response_text.t = "text" -> DecodeFenced(response_text.tokens)
      [] response_text.t = "dict" -> [ok |-> TRUE, value |-> response_text]
      [] OTHER -> [ok |-> FALSE, value |-> None]

\* the list parse_json_recommendations iterates: the bare list, or the dict's
\* "recommendations" (default []); ok = FALSE when an exception ends the call.
\* A "recommendations" that is a str or a dict iterates over items that are no
\* dicts, which the loop skips; None or a number cannot be iterated.
RecommendationsOf(response_text) ==
    LET parsed == ParsedOf(response_text)
    IN  IF ~parsed.ok THEN [ok |-> FALSE, recs |-> <<>>]
        ELSE IF parsed.value.t = "list" THEN [ok |-> TRUE, recs |-> parsed.value.l]
        ELSE IF parsed.value.t = "dict"
        THEN LET r == Get(parsed.value.d, "recommendations", List(<<>>))
             IN  IF r.t = "list" THEN [ok |-> TRUE, recs |-> r.l]
                 ELSE IF r.t \in {"none", "num"} THEN [ok |-> FALSE, recs |-> <<>>]
                 ELSE [ok |-> TRUE, recs |-> <<>>]
        ELSE [ok |-> FALSE, recs |-> <<>>]

\* the metadata fields of an enriched row, in the order of the row
MetadataFields ==
    <<"release_date", "director", "actors", "rating", "genres", "overview",
      "runtime", "popularity", "production_companies">>

Blank == Str(<<>>)

\* FieldText without the strip()
FieldTextRaw(d, k) == PyStr(Get(d, k, Blank))

\* str(rec.get(k, "")).strip()
FieldText(d, k) == Strip(PyStr(Get(d, k, Blank)))

\* FirstMatch taking the last qualifying record instead of the first
LastMatch(metadatas, title) ==
    LET hits == {i \in 1..Len(metadatas) :
                    Contains(Lower(title), Lower(FieldText(metadatas[i], "title")))}
    IN  IF hits = {} THEN 0 ELSE CHOOSE i \in hits : \A j \in hits : j <= i

\* next((m for m in metadatas if str(m.get("title", "")).strip().lower() in title.lower()), None):
\* the position of the match in metadatas, 0 for None
FirstMatch(metadatas, title) ==
    LET hits == {i \in 1..Len(metadatas) :
                    Contains(Lower(title), Lower(FieldText(metadatas[i], "title")))}
    IN  IF hits = {} THEN 0 ELSE Min(hits)

\* the row appended for one recommendation that is a dict
EnrichedRow(rec, metadatas) ==
    LET title == FieldText(rec.d, "title")
        reason == FieldText(rec.d, "reason")
        m == FirstMatch(metadatas, title)
    IN  << <<"title", Str(title)>>, <<"reason", Str(reason)>> >>
        \o [i \in 1..Len(MetadataFields) |->
              <<MetadataFields[i],
                IF m = 0 THEN Blank ELSE Get(metadatas[m], MetadataFields[i], Blank)>>]

\* the for loop of parse_json_recommendations over recs, with the candidate
\* list it reads held fixed
RECURSIVE EnrichAll(_, _)
EnrichAll(recs, metadatas) ==
    IF Len(recs) = 0 THEN <<>>
    ELSE (IF recs[1].t = "dict" THEN <<EnrichedRow(recs[1], metadatas)>> ELSE <<>>)
            \o EnrichAll(Tail(recs), metadatas)

\* parse_json_recommendations(response_text) when agent.metadatas_global is
\* metadatas for the whole call
parse_json_recommendations(response_text, metadatas) ==
    LET r == RecommendationsOf(response_text)
    IN  IF r.ok THEN EnrichAll(r.recs, metadatas) ELSE <<>>

(***************************************************************************)
(* The re-ranker's possible answers.                                       *)
(***************************************************************************)
Rec(title, reason) == Dict(<< <<"title", Str(title)>>, <<"reason", Str(reason)>> >>)

R_Her  == Rec(<<"H", "E", "R">>, <<"a">>)
R_Up2  == Rec(<<" ", "U", "p", " ", "2", " ">>, <<" ", "b">>)
R_Bare == Dict(<< <<"reason", Str(<<"c">>)>> >>)
R_Text == Str(<<"n", "o">>)

P_Object == Dict(<< <<"recommendations", List(<<R_Her, R_Up2>>)>> >>)
P_Array  == List(<<R_Her, R_Up2>>)
P_Mixed  == Dict(<< <<"recommendations", List(<<R_Text, R_Bare, R_Up2>>)>> >>)
P_Empty  == Dict(<<>>)

Contents ==
    { <<JsonTok(P_Object)>>,
      <<WS, JsonTok(P_Array), WS>>,
      <<JsonTok(P_Mixed)>>,
      <<JsonTok(P_Empty)>>,
      <<Junk>>,
      <<FenceJson, WS, JsonTok(P_Object), WS, Fence>>,
      <<FenceJson, JsonTok(P_Array), Fence>> }

\* the contents of the two-session runs
FewContents == { <<JsonTok(P_Object)>>, <<Junk>> }

Q_hope_AND_love == Q_hope \o <<" ", "A", "N", "D", " ">> \o Q_love

\* the queries submitted through Main
MainQueries ==
    {Q_starring_al, Q_before_2015, Q_starring_zed, Q_hope_AND_love, Q_produced_by_fox}

FewQueries == {Q_starring_al, Q_before_2015}

\* n_results default of MovieOrchestrator.run
RunCap == 5

\* candidates = candidates[:5]
CandidateCap == 5

(***************************************************************************)
(* State.                                                                  *)
(***************************************************************************)
VARIABLES
    files,              \* the index files in the data directory: facet -> file
    indexes,            \* MovieSearchAgent.indexes: facet -> index
    collection,         \* the Chroma collection: entries [id, metadata]
    nearest,            \* embedding model and similarity: clause text -> ranking of the entries
    hashSeed,           \* the process's str hash salt (iteration order of sets)
    call,               \* the function a direct caller has called: "none", "search", "filter_clause"
    sQuery, sCap,       \* arguments of that call of search
    sResult,            \* the list it returned
    sEvaluated,         \* the number of clauses it classified and resolved
    fClause,            \* argument of that call of _filter_clause
    fResult,            \* the list it returned
    kept,               \* a query and the list search returned for it, kept by a caller
    metadatas_global,   \* the attribute metadatas_global of the package agent
    session,            \* per browser session: the script run handling its submit
    dataFile,           \* data/tmdb_movies_full_credits.json: [exists, movies]
    auth,               \* st.session_state: authenticated, username, role, user_name, login_time
    clock,              \* datetime.now(), in minutes
    view,               \* the last script run of the browser session and what it rendered
    processing,         \* st.session_state.processing
    job                 \* the job run of the admin pages that is running or was the last to run

vars ==
    <<files, indexes, collection, nearest, hashSeed, call, sQuery, sCap, sResult, sEvaluated,
      fClause, fResult,
      kept, metadatas_global, session, dataFile, auth, clock, view, processing, job>>

pageVars == <<dataFile, auth, clock, view, processing, job>>

(***************************************************************************)
(* auth.py: the login state kept in st.session_state.  A moment is a       *)
(* number of minutes; a datetime is never falsy.                           *)
(***************************************************************************)
SESSION_TIMEOUT == 60

CREDENTIALS ==
    [u \in {"admin", "user"} |->
        IF u = "admin"
        THEN [password |-> "admin321", role |-> "admin", name |-> "Administrator"]
        ELSE [password |-> "user321", role |-> "normal", name |-> "User"]]

\* a str of the login state (a whole text, not split into characters)
Word(w) == [t |-> "str", s |-> w]

\* a datetime
Moment(n) == [t |-> "datetime", n |-> n]

\* verify_credentials(username, password): (success, role, name)
verify_credentials(username, password) ==
    IF username \in DOMAIN CREDENTIALS /\ password = CREDENTIALS[username].password
    THEN [success |-> TRUE, role |-> Word(CREDENTIALS[username].role),
          name |-> Word(CREDENTIALS[username].name)]
    ELSE [success |-> FALSE, role |-> None, name |-> None]

\* the login state initialize_session_state gives a new browser session, and
\* the one logout() leaves
LoggedOut ==
    [authenticated |-> FALSE, username |-> None, role |-> None, user_name |-> None,
     login_time |-> None]

\* login writing the login state before the credentials are verified
login_unverified(state, username, password, now) ==
    LET v == verify_credentials(username, password)
    IN  [authenticated |-> v.success, username |-> Word(username), role |-> v.role,
         user_name |-> v.name, login_time |-> Moment(now)]

\* login(username, password) at the moment now: the login state afterwards
login(state, username, password, now) ==
    LET v == verify_credentials(username, password)
    IN  IF v.success
        THEN [authenticated |-> TRUE, username |-> Word(username), role |-> v.role,
              user_name |-> v.name, login_time |-> Moment(now)]
        ELSE state

\* logout()
logout(state) == LoggedOut

is_authenticated(state) == state.authenticated

is_admin(state) == state.role = Word("admin")

\* check_session_timeout with a session of exactly SESSION_TIMEOUT minutes
\* taken as timed out
check_session_timeout_inclusive(state, now) ==
    IF state.login_time # None /\ now - state.login_time.n >= SESSION_TIMEOUT
    THEN [valid |-> FALSE, state |-> logout(state)]
    ELSE [valid |-> TRUE, state |-> state]

\* check_session_timeout(): whether the session is valid, and the login state
\* afterwards (logout() when it has timed out)
check_session_timeout(state, now) ==
    IF state.login_time # None /\ now - state.login_time.n > SESSION_TIMEOUT
    THEN [valid |-> FALSE, state |-> logout(state)]
    ELSE [valid |-> TRUE, state |-> state]

\* require_auth(): pass = the script goes on; otherwise st.stop() after the
\* login page was shown (after the warning, for a session that timed out)
require_auth(state, now) ==
    IF ~is_authenticated(state)
    THEN [pass |-> FALSE, state |-> state, shown |-> "login"]
    ELSE LET c == check_session_timeout(state, now)
         IN  IF ~c.valid THEN [pass |-> FALSE, state |-> c.state, shown |-> "expired"]
             ELSE [pass |-> TRUE, state |-> c.state, shown |-> "body"]

\* require_admin without the test of the role
require_admin_any_role(state, now) == require_auth(state, now)

\* require_admin(): require_auth, then st.stop() after the error for a role
\* that is not admin
require_admin(state, now) ==
    LET r == require_auth(state, now)
    IN  IF ~r.pass THEN r
        ELSE IF ~is_admin(r.state) THEN [pass |-> FALSE, state |-> r.state, shown |-> "denied"]
        ELSE r

\* no script run yet in the browser session
NoView ==
    [page |-> "", kind |-> "", shown |-> "", time |-> 0, before |-> LoggedOut, button |-> FALSE]

\* no job run yet
NoJob ==
    [page |-> "", stage |-> "idle", extract |-> "none", index |-> "none", load |-> "none",
     catalog |-> <<>>]

\* the searching side at rest: the catalog file is the one the index files and
\* the collection were made from, the normal user is logged in
PagesAtRest(catalog) ==
    /\ dataFile = [exists |-> TRUE, movies |-> catalog]
    /\ auth = login(LoggedOut, "user", CREDENTIALS["user"].password, 0)
    /\ clock = 0
    /\ view = NoView
    /\ processing = FALSE
    /\ job = NoJob

callVars == <<call, sQuery, sCap, sResult, sEvaluated, fClause, fResult, kept>>

NothingKept == [has |-> FALSE, query |-> <<>>, result |-> <<>>]

mainVars == <<metadatas_global, session>>

\* the browser sessions; Streamlit runs each session's script in a thread of
\* the one server process
Sessions == {"s1", "s2"}

\* "import agent" inside agent/agent.py binds the package agent, not the module
\* agent.agent whose line 14 sets a metadatas_global of its own: the attribute
\* the functions write and read does not exist until the first write
Unset == [set |-> FALSE, value |-> <<>>]

SetTo(metadatas) == [set |-> TRUE, value |-> metadatas]

\* a session with no submit in progress
IdleSession ==
    [pc |-> "idle", direct |-> FALSE, query |-> <<>>, candidates |-> <<>>, content |-> <<>>,
     response |-> None, recs |-> <<>>, pos |-> 0, enriched |-> <<>>, result |-> <<>>,
     error |-> "", service |-> "", lookups |-> <<>>]

agentVars == <<files, indexes, collection, nearest, hashSeed>>

HashSeeds == {0, 1}

\* rankings of n entries the model draws from: the collection's order and, when
\* the ranking decides which entries are among the TopK, its reverse
Rankings(n) ==
    IF n <= TopK THEN {[j \in 1..n |-> j]}
    ELSE {[j \in 1..n |-> j], [j \in 1..n |-> n + 1 - j]}

\* the queries of at most n clauses over a set of clause texts, joined by " AND "
RECURSIVE QueriesOver(_, _)
QueriesOver(texts, n) ==
    IF n = 0 THEN {}
    ELSE texts \cup {q \o <<" ", "A", "N", "D", " ">> \o c : q \in QueriesOver(texts, n - 1), c \in texts}

SearchTexts ==
    {Q_starring_al, Q_featuring_bo, Q_starring_zed, Q_after_2015, Q_hope, Q_love}

SearchQueries == QueriesOver(SearchTexts, MaxClauses)

\* the year clauses: a relation, whitespace, a four-digit year
YearTexts == {<<"2", "0", "1", "5">>, <<"2", "0", "2", "0">>}

YearClauses == {r \o <<" ">> \o y : r \in {W_after, W_before, W_in}, y \in YearTexts}

\* clauses that match the patterns of several families
Q_directed_starring == <<"D", "i", "r", "e", "c", "t", "e", "d", " ", "b", "y", " ", "C", "y", " ", "s", "t", "a", "r", "r", "i", "n", "g", " ", "A", "l">>
Q_produced_directed == <<"p", "r", "o", "d", "u", "c", "e", "d", " ", "b", "y", " ", "F", "o", "x", " ", "d", "i", "r", "e", "c", "t", "e", "d", " ", "b", "y", " ", "C", "y">>
Q_genre_in_year == <<"g", "e", "n", "r", "e", " ", "i", "s", " ", "W", "a", "r", " ", "i", "n", " ", "2", "0", "1", "6">>

SeveralTexts == {Q_directed_starring, Q_produced_directed, Q_genre_in_year}

FilterTexts == StructuredTexts \cup SemanticTexts \cup YearClauses \cup SeveralTexts

\* startup: the index files written by createindexes.py and the collection
\* written by loadmovie.py, both from the same catalog
Init ==
    /\ \E catalog \in Catalogs :
         /\ files = save_indexes(build_indexes(catalog))
         /\ collection = embed_and_store_movies(catalog)
         /\ PagesAtRest(catalog)
    /\ indexes = [f \in Facets |-> LoadIndex(files[f])]
    /\ nearest \in [SemanticTexts -> Rankings(Len(collection))]
    /\ hashSeed \in HashSeeds
    /\ call = "none"
    /\ sQuery = <<>>
    /\ sCap = 0
    /\ sResult = <<>>
    /\ sEvaluated = 0
    /\ fClause = <<>>
    /\ fResult = <<>>
    /\ kept = NothingKept
    /\ metadatas_global = Unset
    /\ session = [s \in Sessions |-> IdleSession]

\* a caller invokes MovieSearchAgent.search(query, n_results)
Returned(query, run) ==
    \E n \in 1..MaxCap :
        /\ sQuery' = query
        /\ sCap' = n
        /\ sResult' = run.result
        /\ sEvaluated' = run.evaluated
        /\ indexes' = IndexesAfterSearch(indexes, Clauses(query), run.evaluated)

CallSearchOf(queries) ==
    /\ call = "none"
    /\ \E query \in queries :
         Returned(query, SearchRun(indexes, collection, nearest, hashSeed, query, 0))
    /\ call' = "search"
    /\ UNCHANGED <<pageVars, files, collection, nearest, hashSeed, fClause, fResult, kept, mainVars>>

CallSearch == CallSearchOf(SearchQueries)

\* a caller invokes MovieSearchAgent._filter_clause(clause)
CallFilterClause ==
    /\ call = "none"
    /\ \E clause \in FilterTexts :
         /\ fClause' = clause
         /\ fResult' = filter_clause(indexes, clause)
         /\ indexes' = IndexesAfterFilter(indexes, clause)
    /\ call' = "filter_clause"
    /\ UNCHANGED <<pageVars, files, collection, nearest, hashSeed, sQuery, sCap, sResult, sEvaluated, kept, mainVars>>

\* the caller drops the returned list
Return ==
    /\ call # "none"
    /\ call' = "none"
    /\ sQuery' = <<>>
    /\ sCap' = 0
    /\ sResult' = <<>>
    /\ sEvaluated' = 0
    /\ fClause' = <<>>
    /\ fResult' = <<>>
    /\ UNCHANGED <<pageVars, agentVars, kept, mainVars>>

NextSearch == CallSearch \/ CallFilterClause \/ Return

SpecSearch == Init /\ [][NextSearch]_vars

(***************************************************************************)
(* The same query again: a caller keeps what search returned; the server   *)
(* process may be restarted over the same index files and collection.      *)
(***************************************************************************)
\* the queries a caller repeats
RepeatQueries == {Q_starring_al, Q_starring_zed, Q_hope}

\* the caller keeps the query and the list search returned for it
KeepResult ==
    /\ call = "search"
    /\ ~kept.has
    /\ kept' = [has |-> TRUE, query |-> sQuery, result |-> sResult]
    /\ call' = "none"
    /\ sQuery' = <<>>
    /\ sCap' = 0
    /\ sResult' = <<>>
    /\ sEvaluated' = 0
    /\ UNCHANGED <<pageVars, agentVars, fClause, fResult, mainVars>>

\* the server process ends and a new one starts: MovieSearchAgent.__init__
\* loads the same index files and opens the same collection; the new
\* interpreter salts str hashes anew and the package attribute is gone
Restart ==
    /\ call = "none"
    /\ \A s \in Sessions : session[s].pc = "idle"
    /\ hashSeed' \in HashSeeds
    /\ indexes' = [f \in Facets |-> LoadIndex(files[f])]
    /\ metadatas_global' = Unset
    /\ UNCHANGED <<pageVars, files, collection, nearest, callVars, session>>

NextRepeat == CallSearchOf(RepeatQueries) \/ KeepResult \/ Return \/ Restart

SpecRepeat == Init /\ [][NextRepeat]_vars

(***************************************************************************)
(* A start over index files that are not all as save_indexes wrote them.   *)
(***************************************************************************)
InitStartup ==
    /\ \E catalog \in Catalogs :
         /\ files \in IndexFileStates(save_indexes(build_indexes(catalog)))
         /\ collection = embed_and_store_movies(catalog)
         /\ PagesAtRest(catalog)
    /\ indexes = [f \in Facets |-> LoadIndex(files[f])]
    /\ nearest \in [SemanticTexts -> Rankings(Len(collection))]
    /\ hashSeed \in HashSeeds
    /\ call = "none"
    /\ sQuery = <<>>
    /\ sCap = 0
    /\ sResult = <<>>
    /\ sEvaluated = 0
    /\ fClause = <<>>
    /\ fResult = <<>>
    /\ kept = NothingKept
    /\ metadatas_global = Unset
    /\ session = [s \in Sessions |-> IdleSession]

StartupQueries ==
    {Q_starring_al, Q_after_2015,
     Q_starring_al \o <<" ", "A", "N", "D", " ">> \o Q_after_2015}

NextStartup == CallSearchOf(StartupQueries) \/ CallFilterClause \/ Return

SpecStartup == InitStartup /\ [][NextStartup]_vars

(***************************************************************************)
(* A submit in Main: orchestrator.run (search, recommend), then            *)
(* parse_json_recommendations.  Each step below is one stretch of a        *)
(* session's thread between two points where another thread can run.       *)
(***************************************************************************)
\* the session's record with some fields replaced
Goto(s, pc) == [session EXCEPT ![s].pc = pc]

\* main: submitted and user_prompt.strip(): orchestrator.run(user_prompt) is called
Submit(s, queries) ==
    /\ session[s].pc = "idle"
    /\ \E q \in queries :
         /\ Len(Strip(q)) > 0
         /\ session' = [session EXCEPT ![s].pc = "run", ![s].query = q]
    /\ UNCHANGED <<pageVars, agentVars, callVars, metadatas_global>>

\* FirstFive without the cut
WholeList(found) == found

\* candidates = candidates[:5]
FirstFive(found) == SubSeq(found, 1, Min({CandidateCap, Len(found)}))

\* run after the cut: return [] when there are no candidates, else go on to
\* recommend
Searched(s, candidates) ==
    IF Len(candidates) = 0
    THEN session' = [session EXCEPT ![s].pc = "returned", ![s].response = List(<<>>)]
    ELSE session' = [session EXCEPT ![s].pc = "format", ![s].candidates = candidates]

\* MovieOrchestrator.run: search, candidates[:5], return [] when there are none
RunSearch(s) ==
    /\ session[s].pc = "run"
    /\ Searched(s, FirstFive(search(indexes, collection, nearest, hashSeed,
                                    session[s].query, RunCap)))
    /\ UNCHANGED <<pageVars, agentVars, callVars, metadatas_global>>

\* Format writing agent.metadatas_global only while the attribute does not exist
FormatOnce(s) ==
    /\ session[s].pc = "format"
    /\ metadatas_global' = IF metadatas_global.set THEN metadatas_global
                           ELSE SetTo(session[s].candidates)
    /\ session' = Goto(s, "llm")
    /\ UNCHANGED <<pageVars, agentVars, callVars>>

\* MovieRecommenderAgent._format_movies_for_prompt: agent.metadatas_global = metadatas
Format(s) ==
    /\ session[s].pc = "format"
    /\ metadatas_global' = SetTo(session[s].candidates)
    /\ session' = Goto(s, "llm")
    /\ UNCHANGED <<pageVars, agentVars, callVars>>

\* LLMFail with the failure swallowed: run returns [] as for no candidates
LLMFailSwallowed(s) ==
    /\ session[s].pc = "llm"
    /\ session' = [session EXCEPT ![s].pc = "returned", ![s].service = "failed",
                                  ![s].response = List(<<>>)]
    /\ UNCHANGED <<pageVars, agentVars, callVars, metadatas_global>>

\* recommend: the request to the model fails (service records what the
\* re-ranking service did): RuntimeError, which run does not catch and main
\* reports
LLMFail(s) ==
    /\ session[s].pc = "llm"
    /\ session' = [session EXCEPT ![s].pc = "failed", ![s].service = "failed",
                                  ![s].error = "RuntimeError"]
    /\ UNCHANGED <<pageVars, agentVars, callVars, metadatas_global>>

\* recommend: the model answers; content.strip(), json.loads(content), and
\* ValueError when that fails; run returns the decoded value
LLMRespond(s, contents) ==
    /\ session[s].pc = "llm"
    /\ \E content \in contents :
         LET decoded == DecodeText(TextStrip(content))
         IN  IF decoded.ok
             THEN session' = [session EXCEPT ![s].pc = "returned", ![s].content = content,
                                             ![s].service = "answered",
                                             ![s].response = decoded.value]
             ELSE session' = [session EXCEPT ![s].pc = "failed", ![s].content = content,
                                             ![s].service = "answered",
                                             ![s].error = "ValueError"]
    /\ UNCHANGED <<pageVars, agentVars, callVars, metadatas_global>>

\* main: recommendations = []; if response: parse_json_recommendations(response)
MainCheck(s) ==
    /\ session[s].pc = "returned"
    /\ IF Truthy(session[s].response)
       THEN session' = Goto(s, "parse")
       ELSE session' = [session EXCEPT ![s].pc = "done", ![s].result = <<>>]
    /\ UNCHANGED <<pageVars, agentVars, callVars, metadatas_global>>

\* a caller other than main invokes parse_json_recommendations with the
\* response as text, or with the value json.loads gives for it
CallParse(s) ==
    /\ session[s].pc = "idle"
    /\ \E content \in Contents, as_text \in BOOLEAN :
         LET decoded == DecodeText(content)
         IN  /\ as_text \/ decoded.ok
             /\ session' = [session EXCEPT ![s].pc = "parse", ![s].direct = TRUE,
                               ![s].content = content,
                               ![s].response = IF as_text THEN Text(content) ELSE decoded.value]
    /\ UNCHANGED <<pageVars, agentVars, callVars, metadatas_global>>

\* parse_json_recommendations up to the loop: decode, pick the list, read
\* agent.metadatas_global for the print; an exception (AttributeError when the
\* attribute does not exist) is caught and the function returns []
ParseBegin(s) ==
    /\ session[s].pc = "parse"
    /\ LET r == RecommendationsOf(session[s].response)
       IN  IF r.ok /\ metadatas_global.set
           THEN session' = [session EXCEPT ![s].pc = "loop", ![s].recs = r.recs, ![s].pos = 1,
                                           ![s].enriched = <<>>]
           ELSE session' = [session EXCEPT ![s].pc = "done", ![s].result = <<>>]
    /\ UNCHANGED <<pageVars, agentVars, callVars, metadatas_global>>

\* one iteration of the loop: an item that is no dict is skipped; otherwise
\* the row is built from agent.metadatas_global as it is now
ParseRec(s) ==
    /\ session[s].pc = "loop"
    /\ session[s].pos <= Len(session[s].recs)
    /\ LET rec == session[s].recs[session[s].pos]
       IN  session' = [session EXCEPT
                         ![s].pos = @ + 1,
                         ![s].enriched = IF rec.t = "dict"
                                         THEN Append(@, EnrichedRow(rec, metadatas_global.value))
                                         ELSE @]
    /\ UNCHANGED <<pageVars, agentVars, callVars, metadatas_global>>

\* the loop is over: return enriched
ParseEnd(s) ==
    /\ session[s].pc = "loop"
    /\ session[s].pos > Len(session[s].recs)
    /\ session' = [session EXCEPT ![s].pc = "done", ![s].result = session[s].enriched]
    /\ UNCHANGED <<pageVars, agentVars, callVars, metadatas_global>>

(***************************************************************************)
(* display_movie_offers and MovieOfferAgent.search_offers.                 *)
(***************************************************************************)
\* platforms of _detect_platform, lowercased as the test lowercases them
Platforms ==
    <<<<"n", "e", "t", "f", "l", "i", "x">>,
      <<"a", "m", "a", "z", "o", "n">>,
      <<"a", "p", "p", "l", "e", " ", "t", "v">>,
      <<"g", "o", "o", "g", "l", "e", " ", "p", "l", "a", "y">>,
      <<"d", "i", "s", "n", "e", "y", "+">>,
      <<"h", "b", "o", " ", "m", "a", "x">>,
      <<"y", "o", "u", "t", "u", "b", "e">>>>

\* _detect_platform(title, snippet): position of the platform in Platforms, 0
\* for ""; the amazon.com test that follows the loop finds nothing the loop
\* has not found
detect_platform(title, snippet) ==
    LET combined == Lower(title \o <<" ">> \o snippet)
        hits == {i \in 1..Len(Platforms) : Contains(combined, Platforms[i])}
    IN  IF hits = {} THEN 0 ELSE Min(hits)

\* format_type of _extract_prices_and_format (case ignored); the snippets of
\* the model hold no price, so rent_price and buy_price are ""
FormatOf(snippet) ==
    LET low == Lower(snippet)
    IN  IF Len(snippet) = 0 THEN <<>>
        ELSE IF Contains(low, <<"s", "t", "r", "e", "a", "m">>) \/ Contains(low, <<"d", "i", "g", "i", "t", "a", "l">>)
        THEN <<"S", "t", "r", "e", "a", "m", "i", "n", "g">>
        ELSE IF Contains(low, <<"d", "v", "d">>) THEN <<"D", "V", "D">>
        ELSE <<"U", "n", "k", "n", "o", "w", "n">>

\* the loop of search_offers over organic_results from position idx on
RECURSIVE OffersFrom(_, _)
OffersFrom(results, idx) ==
    IF idx > Len(results) THEN <<>>
    ELSE LET r == results[idx]
             platform == detect_platform(r.title, r.snippet)
         IN  (IF platform = 0 THEN <<>>
              ELSE <<[num |-> idx, Title |-> r.title, Platform |-> Platforms[platform],
                      Format |-> FormatOf(r.snippet), Rent |-> <<>>, Buy |-> <<>>,
                      Costs |-> <<>>, URL |-> r.link]>>)
             \o OffersFrom(results, idx + 1)

\* what requests.get gives: no response (the exception of a network error),
\* or a response with a status and, in its JSON, organic_results
NetworkError == [kind |-> "error", status |-> 0, results |-> <<>>]

Reply(status, results) == [kind |-> "response", status |-> status, results |-> results]

OrganicResults ==
    <<[title |-> <<"N", "e", "t", "f", "l", "i", "x", " ", "u", "p">>, snippet |-> <<"s", "t", "r", "e", "a", "m", " ", "n", "o", "w">>, link |-> <<"n", ".", "c", "o">>],
      [title |-> <<"b", "l", "o", "g">>, snippet |-> <<"d", "v", "d">>, link |-> <<"b", ".", "c", "o">>]>>

Replies == {NetworkError, Reply(500, <<>>), Reply(200, <<>>), Reply(200, OrganicResults)}

\* search_offers(movie_title) for a reply: raised when requests.get raises,
\* [] for a status other than 200 or no organic_results
search_offers(reply) ==
    IF reply.kind = "error" THEN [raised |-> TRUE, offers |-> <<>>]
    ELSE IF reply.status # 200 THEN [raised |-> FALSE, offers |-> <<>>]
    ELSE [raised |-> FALSE, offers |-> OffersFrom(reply.results, 1)]

\* the titles display_movie_offers looks up: rec.get("title", "").strip(),
\* those that are empty skipped
RECURSIVE OfferTitles(_)
OfferTitles(recommendations) ==
    IF Len(recommendations) = 0 THEN <<>>
    ELSE LET title == Strip(Get(recommendations[1], "title", Blank).s)
         IN  (IF Len(title) = 0 THEN <<>> ELSE <<title>>)
             \o OfferTitles(Tail(recommendations))

\* main: recommendations is not empty and serpapi_key is set:
\* display_movie_offers is called
DisplayOffers(s) ==
    /\ session[s].pc = "done"
    /\ ~session[s].direct
    /\ Len(session[s].result) > 0
    /\ session' = Goto(s, "offers")
    /\ UNCHANGED <<pageVars, agentVars, callVars, metadatas_global>>

\* one iteration of the loop of display_movie_offers: search_offers(title);
\* lookups records, per title looked up, the reply and the offers shown; an
\* exception of search_offers leaves the loop and display_movie_offers and is
\* caught by main
OfferLookup(s) ==
    /\ session[s].pc = "offers"
    /\ LET titles == OfferTitles(session[s].result)
           done == Len(session[s].lookups)
       IN  /\ done < Len(titles)
           /\ \E reply \in Replies :
                LET r == search_offers(reply)
                    entry == [title |-> titles[done + 1], reply |-> reply, offers |-> r.offers]
                IN  session' = [session EXCEPT
                                  ![s].lookups = Append(@, entry),
                                  ![s].pc = IF r.raised THEN "failed" ELSE @,
                                  ![s].error = IF r.raised THEN "ConnectionError" ELSE @]
    /\ UNCHANGED <<pageVars, agentVars, callVars, metadatas_global>>

\* the loop of display_movie_offers is over
OffersEnd(s) ==
    /\ session[s].pc = "offers"
    /\ Len(session[s].lookups) = Len(OfferTitles(session[s].result))
    /\ session' = Goto(s, "shown")
    /\ UNCHANGED <<pageVars, agentVars, callVars, metadatas_global>>

\* the script run ends: the rows, the warning or the error have been shown
Finish(s) ==
    /\ session[s].pc \in {"done", "failed", "shown"}
    /\ session' = [session EXCEPT ![s] = IdleSession]
    /\ UNCHANGED <<pageVars, agentVars, callVars, metadatas_global>>

\* one session at a time
Next ==
    \/ Submit("s1", MainQueries)
    \/ RunSearch("s1")
    \/ Format("s1")
    \/ LLMFail("s1")
    \/ LLMRespond("s1", Contents)
    \/ MainCheck("s1")
    \/ CallParse("s1")
    \/ ParseBegin("s1")
    \/ ParseRec("s1")
    \/ ParseEnd("s1")
    \/ DisplayOffers("s1")
    \/ OfferLookup("s1")
    \/ OffersEnd("s1")
    \/ Finish("s1")

Spec == Init /\ [][Next]_vars

\* the sessions' threads interleave
NextConcurrent ==
    \E s \in Sessions :
        \/ Submit(s, FewQueries)
        \/ RunSearch(s)
        \/ Format(s)
        \/ LLMFail(s)
        \/ LLMRespond(s, FewContents)
        \/ MainCheck(s)
        \/ ParseBegin(s)
        \/ ParseRec(s)
        \/ ParseEnd(s)
        \/ Finish(s)

SpecConcurrent == Init /\ [][NextConcurrent]_vars

(***************************************************************************)
(* The pages behind the login: Main (require_auth) and the two admin       *)
(* pages, Extract All Movies and Load All Movies (require_admin).  Every   *)
(* interaction of the browser session runs the page's script from the top; *)
(* a job run of an admin page goes on in steps, one per subprocess.        *)
(***************************************************************************)
MaxClock == 61

\* minutes that pass between two events
Steps == {30, 31}

Pages == {"Main", "Extract_All_Movies", "Load_All_Movies"}

AdminPages == {"Extract_All_Movies", "Load_All_Movies"}

\* what the login form is filled with
Usernames == {"", "admin", "user", "Admin"}

Passwords == {"", "admin321", "user321"}

\* a record with the title and the release date of another record of the catalog
ZedTwin ==
    Movie(Str(T_Zed), List(<<G_War>>), Str(D_2016), Num(9), Str(O_b),
          List(<<N_Bo>>), Str(N_Cy), Num(5), List(<<>>), Num(9))

\* what an extraction may fetch: nothing (the genre request failed), two
\* records that share their title, two that share title and release date
ExtractCatalogs ==
    {<<>>, <<AllMovies[7], AllMovies[8]>>, <<AllMovies[7], ZedTwin>>}

\* a stage in which the script thread is inside the job
RunningStages == {"extract", "index", "load"}

Running == job.stage \in RunningStages

\* the gate at the top of a page's script
Gate(p, state, now) ==
    IF p \in AdminPages THEN require_admin(state, now) ELSE require_auth(state, now)

\* Load All Movies: check_prerequisites, st.stop() before the button without
\* the catalog file
Prerequisites(p) == p = "Load_All_Movies" => dataFile.exists

\* one run of the script of page p with st.session_state.processing = proc:
\* the login state afterwards, what was rendered, whether the start button was
\* rendered enabled, and whether the run went into the job
ScriptRun(p, state, now, proc) ==
    LET g == Gate(p, state, now)
        body == g.pass /\ p \in AdminPages /\ Prerequisites(p)
    IN  [state |-> g.state, shown |-> g.shown,
         button |-> body /\ ~proc, starts |-> body /\ proc]

\* the job run the script of page p goes into
NewJob(p) ==
    [page |-> p, stage |-> IF p = "Extract_All_Movies" THEN "extract" ELSE "load",
     extract |-> IF p = "Extract_All_Movies" THEN "running" ELSE "none",
     index |-> "none",
     load |-> IF p = "Load_All_Movies" THEN "running" ELSE "none",
     catalog |-> <<>>]

\* start_processing() ran and the script stopped at the gate
PendingJob == [NoJob EXCEPT !.stage = "pending"]

\* the script of page p runs from the top, for an interaction of the given kind
Visit(p, kind, state, proc) ==
    LET r == ScriptRun(p, state, clock, proc)
    IN  /\ auth' = r.state
        /\ view' = [page |-> p, kind |-> kind, shown |-> r.shown, time |-> clock,
                    before |-> auth, button |-> r.button]
        /\ processing' = proc
        /\ job' = IF r.starts THEN NewJob(p)
                  ELSE IF proc /\ job.stage \notin {"pending", "interrupted"} THEN PendingJob
                  ELSE job

searchVars == <<indexes, nearest, hashSeed, callVars, metadatas_global, session>>

\* the browser session opens or reloads a page
PageLoad(p) ==
    /\ ~Running
    /\ Visit(p, "load", auth, processing)
    /\ UNCHANGED <<searchVars, files, collection, dataFile, clock>>

\* show_login_page: the form is submitted; nothing is tried without a username
\* and a password; a login that succeeds ends in st.rerun()
LoginSubmit(p) ==
    /\ ~Running
    /\ view.page = p
    /\ view.shown \in {"login", "expired"}
    /\ \E username \in Usernames, password \in Passwords :
          LET tried == username # "" /\ password # ""
              after == IF tried THEN login(auth, username, password, clock) ELSE auth
          IN  IF tried /\ verify_credentials(username, password).success
              THEN Visit(p, "login", after, processing)
              ELSE /\ auth' = after
                   /\ view' = [page |-> p, kind |-> "login", shown |-> "login", time |-> clock,
                               before |-> auth, button |-> FALSE]
                   /\ UNCHANGED <<processing, job>>
    /\ UNCHANGED <<searchVars, files, collection, dataFile, clock>>

\* show_user_info_sidebar: the logout button of a page whose body was
\* rendered: the script runs to the sidebar, logout(), st.rerun()
LogoutClick(p) ==
    /\ ~Running
    /\ view.page = p
    /\ view.shown = "body"
    /\ LET g == Gate(p, auth, clock)
       IN  Visit(p, "logout", IF g.pass THEN logout(g.state) ELSE auth, processing)
    /\ UNCHANGED <<searchVars, files, collection, dataFile, clock>>

\* the start button of an admin page: start_processing() runs as the
\* callback, then the script
StartClick(p) ==
    /\ ~Running
    /\ view.page = p
    /\ view.button
    /\ Visit(p, "start", auth, TRUE)
    /\ UNCHANGED <<searchVars, files, collection, dataFile, clock>>

\* AfterExtract going on to the index build whatever run_script returned
AfterExtractNoStop(j, success) ==
    [j EXCEPT !.extract = IF success THEN "ok" ELSE "failed",
              !.index = "running", !.stage = "index"]

\* main after run_script("extractmovie.py", [max_pages]): on to step 2, or
\* st.stop() when it failed
AfterExtract(j, success) ==
    IF success THEN [j EXCEPT !.extract = "ok", !.index = "running", !.stage = "index"]
    ELSE [j EXCEPT !.extract = "failed", !.stage = "failed"]

\* main after run_script("createindexes.py")
AfterIndex(j, success) ==
    [j EXCEPT !.index = IF success THEN "ok" ELSE "failed",
              !.stage = IF success THEN "succeeded" ELSE "failed"]

\* main after run_load_script()
AfterLoad(j, success, movies) ==
    [j EXCEPT !.load = IF success THEN "ok" ELSE "failed",
              !.stage = IF success THEN "succeeded" ELSE "failed",
              !.catalog = movies]

\* st.session_state.processing after a step: False once the run has ended
ProcessingAfter(j) == IF j.stage \in {"succeeded", "failed"} THEN FALSE ELSE processing

\* Extract All Movies, step 1: extractmovie.py ends; it writes the catalog
\* file when it succeeds
ExtractDone ==
    /\ job.stage = "extract"
    /\ \E success \in BOOLEAN, movies \in ExtractCatalogs :
          /\ dataFile' = IF success THEN [exists |-> TRUE, movies |-> movies] ELSE dataFile
          /\ job' = AfterExtract(job, success)
    /\ processing' = ProcessingAfter(job')
    /\ UNCHANGED <<searchVars, files, collection, auth, clock, view>>

\* the st.rerun() that ends a job run
Rerun(p) ==
    LET r == ScriptRun(p, auth, clock, FALSE)
    IN  /\ auth' = r.state
        /\ view' = [page |-> p, kind |-> "rerun", shown |-> r.shown, time |-> clock,
                    before |-> auth, button |-> r.button]

\* Extract All Movies, step 2: createindexes.py ends; it exits with 1 when the
\* catalog file holds no record, and writes the five index files otherwise
IndexDone ==
    /\ job.stage = "index"
    /\ \E success \in BOOLEAN :
          /\ success => dataFile.exists /\ Len(dataFile.movies) > 0
          /\ files' = IF success THEN save_indexes(build_indexes(dataFile.movies)) ELSE files
          /\ job' = AfterIndex(job, success)
    /\ processing' = ProcessingAfter(job')
    /\ Rerun(job.page)
    /\ UNCHANGED <<searchVars, collection, dataFile, clock>>

\* Load All Movies: loadmovie.py ends; it makes the collection anew from the
\* catalog file; when it fails the old collection may be gone
LoadDone ==
    /\ job.stage = "load"
    /\ \E success \in BOOLEAN :
          /\ collection' \in IF success THEN {embed_and_store_movies(dataFile.movies)}
                             ELSE {collection, <<>>}
          /\ job' = AfterLoad(job, success, dataFile.movies)
    /\ processing' = ProcessingAfter(job')
    /\ Rerun(job.page)
    /\ UNCHANGED <<searchVars, files, dataFile, clock>>

\* an interaction of the browser session while the job runs: the script is
\* stopped at its next Streamlit call, which comes before the subprocess of
\* the stage or after it has succeeded; processing stays as it is
Interrupt ==
    /\ Running
    /\ job' = [job EXCEPT !.stage = "interrupted"]
    /\ \E done \in BOOLEAN, movies \in ExtractCatalogs :
          /\ dataFile' = IF done /\ job.stage = "extract"
                         THEN [exists |-> TRUE, movies |-> movies] ELSE dataFile
          /\ files' = IF done /\ job.stage = "index" /\ Len(dataFile.movies) > 0
                      THEN save_indexes(build_indexes(dataFile.movies)) ELSE files
          /\ collection' = IF done /\ job.stage = "load"
                           THEN embed_and_store_movies(dataFile.movies) ELSE collection
    /\ UNCHANGED <<searchVars, auth, clock, view, processing>>

\* time passes
Tick ==
    /\ \E d \in Steps :
          /\ clock + d <= MaxClock
          /\ clock' = clock + d
    /\ UNCHANGED <<searchVars, files, collection, dataFile, auth, view, processing, job>>

\* a new browser session on an installation without data
InitPages ==
    /\ files = [f \in Facets |-> Missing]
    /\ collection = <<>>
    /\ indexes = [f \in Facets |-> LoadIndex(files[f])]
    /\ nearest = [t \in SemanticTexts |-> <<>>]
    /\ hashSeed = 0
    /\ call = "none"
    /\ sQuery = <<>>
    /\ sCap = 0
    /\ sResult = <<>>
    /\ sEvaluated = 0
    /\ fClause = <<>>
    /\ fResult = <<>>
    /\ kept = NothingKept
    /\ metadatas_global = Unset
    /\ session = [s \in Sessions |-> IdleSession]
    /\ dataFile = [exists |-> FALSE, movies |-> <<>>]
    /\ auth = LoggedOut
    /\ clock = 0
    /\ view = NoView
    /\ processing = FALSE
    /\ job = NoJob

NextPages ==
    \/ \E p \in Pages : PageLoad(p)
    \/ \E p \in Pages : LoginSubmit(p)
    \/ \E p \in Pages : LogoutClick(p)
    \/ \E p \in AdminPages : StartClick(p)
    \/ ExtractDone
    \/ IndexDone
    \/ LoadDone
    \/ Interrupt
    \/ Tick

SpecPages == InitPages /\ [][NextPages]_vars



(***************************************************************************)
(* Properties of search and _filter_clause (SpecSearch).                   *)
(***************************************************************************)
\* a clause's class and the list it resolves to
ClauseInfo(clause) ==
    LET structured == is_clause_structured(clause)
    IN  [structured |-> structured,
         resolved |-> IF structured THEN filter_clause(indexes, clause)
                      ELSE VectorQuery(collection, nearest, clause)]

RECURSIVE InfoOf(_)
InfoOf(clauses) ==
    IF Len(clauses) = 0 THEN <<>>
    ELSE <<ClauseInfo(clauses[1])>> \o InfoOf(Tail(clauses))

\* class and resolved list of every clause of the query search was called with
sInfo == InfoOf(Clauses(sQuery))

StructuredAt(info) == {i \in 1..Len(info) : info[i].structured}

SemanticAt(info) == {i \in 1..Len(info) : ~info[i].structured}

\* a list of records as a set of dicts: a dict is its set of <<key, value>>
\* members, whatever their order (Python's == on dicts)
RecordSet(list) == {Range(list[j]) : j \in 1..Len(list)}

\* the records that are in the resolved list of every clause in I
CommonRecords(info, I) ==
    LET sets == {RecordSet(info[i].resolved) : i \in I}
    IN  {r \in UNION sets : \A S \in sets : r \in S}

\* r and m are the same movie: the same title and release date
SameMovie(r, m) ==
    /\ safe_str(Get(r, "title", None)) = safe_str(Get(m, "title", None))
    /\ safe_str(Get(r, "release_date", None)) = safe_str(Get(m, "release_date", None))

\* C1: when every clause of the query is structured and resolves to a
\* non-empty list, search returns, as a set, exactly the records that are in
\* every clause's resolved list.
C1_StructuredIntersection ==
    call = "search" =>
        LET info == sInfo
        IN  (/\ Len(info) > 0
             /\ SemanticAt(info) = {}
             /\ \A i \in 1..Len(info) : Len(info[i].resolved) > 0)
            => RecordSet(sResult) = CommonRecords(info, StructuredAt(info))

\* C1 witness: two structured clauses whose lists differ, and a non-empty
\* result that leaves out a record of the first clause's list
C1_Witness ==
    /\ call = "search"
    /\ SemanticAt(sInfo) = {}
    /\ Len(sInfo) = 2
    /\ Len(sResult) > 0
    /\ RecordSet(sInfo[1].resolved) \ RecordSet(sResult) # {}

\* C2: when the query has a semantic clause and no clause resolves to empty,
\* search returns exactly the intersection of the semantic clauses' hit sets;
\* the structured clauses' lists have no part in it.
C2_SemanticOnlyIntersection ==
    call = "search" =>
        LET info == sInfo
        IN  (/\ SemanticAt(info) # {}
             /\ \A i \in 1..Len(info) : Len(info[i].resolved) > 0)
            => RecordSet(sResult) = CommonRecords(info, SemanticAt(info))

\* C2 witness: a semantic and a structured clause, none resolving to empty, and
\* a returned record that is no movie of the structured clause's list
C2_Witness ==
    /\ call = "search"
    /\ LET info == sInfo
       IN  /\ SemanticAt(info) # {}
           /\ \A i \in 1..Len(info) : Len(info[i].resolved) > 0
           /\ \E i \in StructuredAt(info) : \E j \in 1..Len(sResult) :
                 \A k \in 1..Len(info[i].resolved) : ~SameMovie(sResult[j], info[i].resolved[k])

\* C3: a structured clause that resolves to the empty list makes search
\* return the empty list, whatever the other clauses and wherever it stands.
C3_EmptyStructuredAborts ==
    call = "search" =>
        LET info == sInfo
        IN  (\E i \in StructuredAt(info) : Len(info[i].resolved) = 0) => sResult = <<>>

\* C3 witness: the empty structured clause stands last, after a clause that
\* resolved to records
C3_Witness ==
    /\ call = "search"
    /\ LET info == sInfo
       IN  /\ Len(info) = 2
           /\ info[2].structured
           /\ Len(info[2].resolved) = 0
           /\ Len(info[1].resolved) > 0

\* C4 (as claimed): search(query, N) returns at most N records.
C4_AtMostCap == call = "search" => Len(sResult) <= sCap

\* the records a year relation selects, stated on the year index directly
YearSelects(r, relation, year) ==
    \E i \in 1..Len(indexes["year"]) :
        LET key == indexes["year"][i][1]
        IN  /\ \A c \in Range(key) : IsDecimal(c)
            /\ Len(key) > 0
            /\ \/ relation = W_after /\ DecimalValue(key) > year
               \/ relation = W_before /\ DecimalValue(key) < year
               \/ relation = W_in /\ DecimalValue(key) = year
            /\ r \in Range(indexes["year"][i][2])

\* C5: a year clause resolves to all and only the records under the year keys
\* whose integer value is greater than (after), less than (before) or equal to
\* (in) the clause's year; keys that are no integers contribute nothing.
C5_YearRelation ==
    \A relation \in Range(YearTriggers) : \A y \in YearTexts :
        (call = "filter_clause" /\ fClause = relation \o <<" ">> \o y)
        => \A r \in Range(fResult) \cup UNION {Range(indexes["year"][i][2]) : i \in 1..Len(indexes["year"])} :
              r \in Range(fResult) <=> YearSelects(r, relation, DecimalValue(y))

\* C5 witness: "after 2015" resolved to records while the year index holds the
\* key 2015 itself and a key that is no integer
C5_Witness ==
    /\ call = "filter_clause"
    /\ fClause = Q_after_2015
    /\ Len(fResult) > 0
    /\ \E i \in 1..Len(indexes["year"]) : indexes["year"][i][1] = <<"2", "0", "1", "5">>
    /\ \E i \in 1..Len(indexes["year"]) : ~PyInt(indexes["year"][i][1]).ok


(***************************************************************************)
(* Properties of a submit and of parse_json_recommendations (Spec,         *)
(* SpecConcurrent).                                                        *)
(***************************************************************************)
IsObject(v) == v.t = "dict"

HasPayload(content) == \E i \in 1..Len(content) : content[i].k = "json"

\* the JSON value a response content carries
PayloadOf(content) == content[CHOOSE i \in 1..Len(content) : content[i].k = "json"].v

\* the recommendation candidates of a payload: the elements of the bare array,
\* or of the object's "recommendations" array
PayloadItems(payload) ==
    IF payload.t = "list" THEN payload.l
    ELSE IF payload.t = "dict" /\ HasKey(payload.d, "recommendations")
              /\ Get(payload.d, "recommendations", None).t = "list"
    THEN Get(payload.d, "recommendations", None).l
    ELSE <<>>

\* the session's call of parse_json_recommendations has returned, after main's
\* call of run or after a direct call
Reconciled(s) == session[s].pc = "done" /\ HasPayload(session[s].content)

\* C6: with two sessions interleaving in any way, the rows a query ends
\* with are the rows its recommendations get from the candidates its own
\* search returned.
C6_OwnCandidates ==
    \A s \in Sessions :
        (Reconciled(s) /\ Len(session[s].candidates) > 0)
            => session[s].result
                 = parse_json_recommendations(session[s].response, session[s].candidates)

\* the records whose trimmed lowercase title is contained in the lowercase of
\* the recommendation's title, as positions in the candidate list
Qualifying(metadatas, rec) ==
    {i \in 1..Len(metadatas) :
        Contains(Lower(PyStr(Get(rec.d, "title", Blank))),
                 Lower(Strip(PyStr(Get(metadatas[i], "title", Blank)))))}

\* the row's metadata are the record's, field by field
MetadataFrom(row, record) ==
    \A i \in 1..Len(MetadataFields) :
        Get(row, MetadataFields[i], None) = Get(record, MetadataFields[i], Blank)

MetadataBlank(row) ==
    \A i \in 1..Len(MetadataFields) : Get(row, MetadataFields[i], None) = Blank

Accepted(s) ==
    /\ session[s].response.t \in {"text", "dict"}
    /\ Truthy(session[s].response)
    /\ metadatas_global.set

\* C8 as stated, for a payload given as text or as a decoded object: the call
\* returns one row per recommendation candidate of the payload, in the
\* payload's order, each with that candidate's title and reason unchanged.
C8_RowPerCandidateUnchanged ==
    (Reconciled("s1") /\ Accepted("s1")) =>
        LET items == PayloadItems(PayloadOf(session["s1"].content))
            rows == session["s1"].result
        IN  /\ Len(rows) = Len(items)
            /\ \A j \in 1..Len(rows) :
                  /\ IsObject(items[j])
                  /\ Get(rows[j], "title", None) = Get(items[j].d, "title", None)
                  /\ Get(rows[j], "reason", None) = Get(items[j].d, "reason", None)

\* C8 amended: given the payload as text or as a decoded object, the call
\* returns one row per element of the payload's array that is an object, in
\* the payload's order, and each row carries that element's title and reason
\* as text without the surrounding whitespace (the empty string when the
\* element has none).
C8_RowPerObjectTrimmed ==
    (Reconciled("s1") /\ Accepted("s1")) =>
        LET objs == SelectSeq(PayloadItems(PayloadOf(session["s1"].content)), IsObject)
            rows == session["s1"].result
        IN  /\ Len(rows) = Len(objs)
            /\ \A j \in 1..Len(rows) :
                  /\ Get(rows[j], "title", None)
                        = Str(Strip(PyStr(Get(objs[j].d, "title", Blank))))
                  /\ Get(rows[j], "reason", None)
                        = Str(Strip(PyStr(Get(objs[j].d, "reason", Blank))))

\* C8 witness: a call given a payload of three elements, one of them no
\* object, one without a title and one whose title and reason have spaces
\* around them, has returned two rows.
C8_Witness ==
    /\ Reconciled("s1") /\ Accepted("s1")
    /\ PayloadOf(session["s1"].content) = P_Mixed
    /\ Len(session["s1"].result) = 2
    /\ Get(session["s1"].result[1], "title", None) = Blank
    /\ Get(session["s1"].result[2], "title", None) = Str(<<"U", "p", " ", "2">>)
    /\ Get(session["s1"].result[2], "reason", None) = Str(<<"b">>)

\* C9: a payload that is a bare array yields the rows that the object with
\* the same array under "recommendations" yields for the same candidate
\* records, whether it reaches the reconciler as text or decoded.
C9_BothShapes ==
    (/\ Reconciled("s1")
     /\ metadatas_global.set
     /\ PayloadOf(session["s1"].content).t = "list") =>
        session["s1"].result
          = parse_json_recommendations(
                Dict(<< <<"recommendations", PayloadOf(session["s1"].content)>> >>),
                metadatas_global.value)

\* the response is no JSON, with or without a fence around it
Unparsable(content) == Len(content) > 0 /\ ~DecodeFenced(content).ok

\* C10: a query whose re-ranker response is not parsable JSON ends with an
\* empty list of rows and without an exception.
C10_UnparsableGivesEmpty ==
    (/\ session["s1"].pc \in {"done", "failed"}
     /\ Unparsable(session["s1"].content)) =>
        /\ session["s1"].pc = "done"
        /\ session["s1"].error = ""
        /\ session["s1"].result = <<>>


\* C11: when the call of the re-ranking service fails, run ends with an
\* exception at its caller and returns no value, empty or partial; a run that
\* found no candidates returns [] without an exception.
C11_UpstreamFailureRaised ==
    \A s \in Sessions :
        /\ session[s].service = "failed" =>
              /\ session[s].pc = "failed"
              /\ session[s].error = "RuntimeError"
              /\ session[s].response = None
              /\ session[s].result = <<>>
        /\ (session[s].pc = "returned" /\ session[s].response = List(<<>>)) =>
              /\ session[s].error = ""
              /\ session[s].service # "failed"

\* C11 witness: a query with candidates whose re-ranking call failed has ended
\* with the exception.
C11_Witness ==
    /\ session["s1"].service = "failed"
    /\ session["s1"].pc = "failed"
    /\ Len(session["s1"].candidates) > 0


\* C12: a query run again over the same indexes and the same collection
\* returns the list it returned before: the same records in the same order.
C12_SameQuerySameList ==
    (call = "search" /\ kept.has /\ kept.query = sQuery) => sResult = kept.result


\* the clause list with the clauses at k and k + 1 exchanged
Exchanged(clauses, k) ==
    [i \in 1..Len(clauses) |->
        IF i = k THEN clauses[k + 1] ELSE IF i = k + 1 THEN clauses[k] ELSE clauses[i]]

\* C13: search returns the same set of records for a query and for the query
\* with two neighbouring clauses exchanged; the queries are all the sequences
\* of clauses, and exchanges of neighbours make up every permutation.
C13_ClauseOrderIrrelevant ==
    call = "search" =>
        LET clauses == Clauses(sQuery)
        IN  \A k \in 1..(Len(clauses) - 1) :
               RecordSet(search(indexes, collection, nearest, hashSeed,
                                Join(Exchanged(clauses, k), SepAnd), sCap))
                 = RecordSet(sResult)

\* C13 witness: search has returned records for a query of two clauses of the
\* same class that resolve to different lists.
C13_Witness ==
    /\ call = "search"
    /\ Len(sResult) > 0
    /\ LET info == sInfo
       IN  /\ Len(info) = 2
           /\ info[1].structured = info[2].structured
           /\ RecordSet(info[1].resolved) # RecordSet(info[2].resolved)
           /\ RecordSet(sResult) # RecordSet(info[1].resolved)


\* the offer search of a lookup failed: a network error or a status that is
\* not 2xx
LookupFailed(entry) ==
    \/ entry.reply.kind = "error"
    \/ entry.reply.status < 200
    \/ entry.reply.status > 299

\* C14: once the offer lookups of a query have ended, every displayed title
\* has been looked up, and a lookup whose offer search failed has an empty
\* offer list and has not ended the others.
C14_OfferFailureLocal ==
    (/\ session["s1"].pc \in {"shown", "failed"}
     /\ Len(session["s1"].lookups) > 0) =>
        /\ session["s1"].pc = "shown"
        /\ Len(session["s1"].lookups) = Len(OfferTitles(session["s1"].result))
        /\ \A i \in 1..Len(session["s1"].lookups) :
              LookupFailed(session["s1"].lookups[i]) => session["s1"].lookups[i].offers = <<>>


\* C15: a start over index files of which one is missing completes; the
\* index of the facet whose file is missing is the empty mapping and every
\* other index is what its file holds.
C15_MissingFileEmptyIndex ==
    \A f \in Facets :
        IF files[f].exists THEN indexes[f] = files[f].content ELSE indexes[f] = <<>>

\* C15 witness: the agent started without one index file, holds another
\* index that is not empty, and has answered a clause from it.
C15_Witness ==
    /\ \E f \in Facets : ~files[f].exists /\ indexes[f] = <<>>
    /\ \E g \in Facets : files[g].exists /\ Len(indexes[g]) > 0
    /\ call = "filter_clause"
    /\ Len(fResult) > 0


\* the text is a payload text between an opening json fence and a closing fence
Wrapped(content) ==
    /\ Len(content) >= 2
    /\ content[1] = FenceJson
    /\ content[Len(content)] = Fence

\* the payload text between the fences
Unwrapped(content) == SubSeq(content, 2, Len(content) - 1)

\* C16: parse_json_recommendations given a payload text between an opening
\* json fence and a closing fence returns the rows it returns for the payload
\* text alone.
C16_FenceIgnored ==
    (/\ Reconciled("s1")
     /\ session["s1"].response.t = "text"
     /\ Wrapped(session["s1"].content)
     /\ metadatas_global.set) =>
        session["s1"].result
          = parse_json_recommendations(Text(Unwrapped(session["s1"].content)),
                                       metadatas_global.value)

\* C16 witness: a call given a fenced payload text has returned two rows.
C16_Witness ==
    /\ Reconciled("s1")
    /\ session["s1"].response.t = "text"
    /\ Wrapped(session["s1"].content)
    /\ metadatas_global.set
    /\ Len(session["s1"].result) = 2


\* the pattern families in the order of the claim
Families == <<"actor", "director", "company", "genre", "year">>

\* the family's pattern matches somewhere in the clause
FamilyMatches(family, c) ==
    CASE family = "actor" -> SearchValue(c, ActorTriggers).ok
      [] family = "director" -> SearchValue(c, DirectorTriggers).ok
      [] family = "company" -> SearchValue(c, CompanyTriggers).ok
      [] family = "genre" -> SearchValue(c, GenreTriggers).ok
      [] family = "year" -> SearchYear(c, YearTriggers).ok

\* the clause resolved as the family: the list under the captured value in the
\* family's index, or for a year relation the lists of the years it selects
ResolvedAs(family, c) ==
    CASE family = "actor" ->
            Get(indexes["actor"], Strip(SearchValue(c, ActorTriggers).g2), <<>>)
      [] family = "director" ->
            Get(indexes["director"], Strip(SearchValue(c, DirectorTriggers).g2), <<>>)
      [] family = "company" ->
            Get(indexes["company"], Strip(SearchValue(c, CompanyTriggers).g2), <<>>)
      [] family = "genre" ->
            Get(indexes["genre"], Strip(SearchValue(c, GenreTriggers).g2), <<>>)
      [] family = "year" ->
            LET m == SearchYear(c, YearTriggers)
            IN  YearScan(indexes["year"], m.g1, PyInt(m.g2).value)

\* the indexes with every index but the family's emptied
OnlyIndex(family) == [f \in Facets |-> IF f = family THEN indexes[f] ELSE <<>>]

\* C17: a clause that matches no family is semantic and resolves to nothing
\* in the indexes; a clause that matches one or more is structured and is
\* resolved as the earliest of them in the order actor, director, company,
\* genre, year, from that family's index alone.
C17_EarliestFamily ==
    call = "filter_clause" =>
        LET c == Lower(Strip(fClause))
            matching == {i \in 1..Len(Families) : FamilyMatches(Families[i], c)}
        IN  IF matching = {}
            THEN ~is_clause_structured(fClause) /\ fResult = <<>>
            ELSE /\ is_clause_structured(fClause)
                 /\ fResult = ResolvedAs(Families[Min(matching)], c)
                 /\ fResult = filter_clause(OnlyIndex(Families[Min(matching)]), fClause)

\* C17 witness: a clause that matches two families has been resolved to a list
\* that is not the one the later family gives.
C17_Witness ==
    /\ call = "filter_clause"
    /\ Len(fResult) > 0
    /\ LET c == Lower(Strip(fClause))
           matching == {i \in 1..Len(Families) : FamilyMatches(Families[i], c)}
       IN  /\ Cardinality(matching) = 2
           /\ \E i \in matching : i # Min(matching) /\ ResolvedAs(Families[i], c) # fResult


\* C18: when a structured clause of the query resolves to nothing, search
\* has classified and resolved no clause after it and has returned the empty
\* list.
C18_NothingAfterEmptyStructured ==
    call = "search" =>
        LET info == sInfo
        IN  \A i \in StructuredAt(info) :
               Len(info[i].resolved) = 0 => (sEvaluated <= i /\ sResult = <<>>)

\* C18 witness: search has stopped at the first of two clauses, a structured
\* clause that resolves to nothing, the second being one that resolves to
\* records.
C18_Witness ==
    /\ call = "search"
    /\ sEvaluated = 1
    /\ LET info == sInfo
       IN  /\ Len(info) = 2
           /\ info[1].structured
           /\ Len(info[1].resolved) = 0
           /\ Len(info[2].resolved) > 0


\* C19: a record that every structured clause of the query resolves to, with
\* the same fields and the same values in each list whatever the order of the
\* fields, is an element of the intersection and so of the list search returns.
C19_EqualRecordsOneElement ==
    call = "search" =>
        LET info == sInfo
        IN  (/\ Len(info) > 0
             /\ SemanticAt(info) = {}
             /\ \A i \in 1..Len(info) : Len(info[i].resolved) > 0)
            => CommonRecords(info, 1..Len(info)) \subseteq RecordSet(sResult)


\* the catalog the index files and the collection were built from
CatalogOf == CHOOSE catalog \in Catalogs : embed_and_store_movies(catalog) = collection

\* C20: in the indexes build_indexes made of a catalog, a record is listed
\* under a key once when one of its values in that facet gives the key, and
\* not at all otherwise: never twice under the same key.
C20_OncePerDistinctValue ==
    LET catalog == CatalogOf
        built == build_indexes(catalog)
    IN  \A f \in Facets : \A e \in 1..Len(built[f]) :
           LET key == built[f][e][1]
               listed == built[f][e][2]
           IN  \A i \in 1..Len(catalog) :
                  Cardinality({j \in 1..Len(listed) : listed[j] = catalog[i]})
                    = IF key \in Range(MovieKeys(catalog[i], f)) THEN 1 ELSE 0


\* the facets whose keys are attribute values
ValueFacets == {"actor", "director", "company", "genre"}

\* the values a record holds in a facet, as they stand in the record
FacetValues(movie, facet) ==
    CASE facet = "actor" -> Range(ListValues(movie, "actors"))
      [] facet = "company" -> Range(ListValues(movie, "production_companies"))
      [] facet = "genre" -> Range(ListValues(movie, "genres"))
      [] facet = "director" ->
            IF Truthy(Get(movie, "director", None)) THEN {Get(movie, "director", None).s} ELSE {}

\* C21: every key of the actor, director, company and genre indexes built
\* from a catalog is lowercase and trimmed, every record listed under it is a
\* catalog record as it stands in the catalog, and the key is the lowercase,
\* trimmed form of one of that record's values in the facet.
C21_KeysLowercaseTrimmed ==
    LET catalog == CatalogOf
        built == build_indexes(catalog)
    IN  \A f \in ValueFacets : \A e \in 1..Len(built[f]) :
           LET key == built[f][e][1]
               listed == built[f][e][2]
           IN  /\ key = Lower(Strip(key))
               /\ \A j \in 1..Len(listed) :
                     /\ listed[j] \in Range(catalog)
                     /\ \E v \in FacetValues(listed[j], f) : key = Lower(Strip(v))


\* the indexes as MovieSearchAgent.__init__ loaded them from the index files
LoadedIndexes == [f \in Facets |-> LoadIndex(files[f])]

\* C22: whatever search and _filter_clause calls have been made, the five
\* indexes are as they were loaded: same keys, same lists, same order.
C22_IndexesAsLoaded == indexes = LoadedIndexes

\* a search has gone through two clauses, a structured one among them whose
\* key is in no index
C22_Witness ==
    /\ call = "search"
    /\ sEvaluated = 2
    /\ \E i \in 1..2 :
          /\ is_clause_structured(Clauses(sQuery)[i])
          /\ Len(filter_clause(indexes, Clauses(sQuery)[i])) = 0


\* the re-ranker has been called for the session's submit: recommend is in
\* progress, or its request was made
RerankerCalled(s) == session[s].pc \in {"format", "llm"} \/ session[s].service # ""

\* C26: the re-ranker is only ever called with one to five candidates; a run
\* whose search found nothing returns the empty list and no call was made.
C26_OneToFiveCandidates ==
    /\ RerankerCalled("s1") =>
          /\ Len(session["s1"].candidates) >= 1
          /\ Len(session["s1"].candidates) <= CandidateCap
    /\ (session["s1"].pc = "returned" /\ ~RerankerCalled("s1")) =>
          /\ session["s1"].response = List(<<>>)
          /\ session["s1"].candidates = <<>>

\* the re-ranker is called for a query whose search found more than five records
C26_Witness ==
    /\ session["s1"].pc = "llm"
    /\ Len(session["s1"].candidates) = CandidateCap
    /\ Len(search(indexes, collection, nearest, hashSeed, session["s1"].query, RunCap)) > CandidateCap

\* a run returned the empty list without a call of the re-ranker
C26_WitnessNone == session["s1"].pc = "returned" /\ ~RerankerCalled("s1")


\* main has invoked parse_json_recommendations for the session's query, and
\* the call has not returned
ParsingForQuery(s) == session[s].pc \in {"parse", "loop"} /\ ~session[s].direct

\* C27: one session, queries one after another: while parse_json_recommendations
\* runs for a query, agent.metadatas_global exists and is the candidate list
\* this query's run passed to recommend.
C27_GlobalIsOwnCandidates ==
    ParsingForQuery("s1") =>
        /\ metadatas_global.set
        /\ metadatas_global.value = session["s1"].candidates
        /\ Len(session["s1"].candidates) > 0

\* the call is in its loop for a query that has candidates
C27_Witness ==
    /\ ParsingForQuery("s1")
    /\ session["s1"].pc = "loop"
    /\ session["s1"].pos > 1
    /\ session["s1"].query = Q_before_2015


\* the phrase that names a value of a facet in a clause
PhraseOf(facet) ==
    CASE facet = "actor" -> W_starring
      [] facet = "director" -> W_directed_by
      [] facet = "company" -> W_produced_by
      [] facet = "genre" -> W_genre_is

\* the single-clause query naming a value
NamingQuery(phrase, value) == phrase \o <<" ">> \o value

\* search over the loaded indexes returns the record for the query
Finds(query, movie) ==
    \E r \in Range(search(indexes, collection, nearest, hashSeed, query, TopK)) :
        DictEq(r, movie)

\* the record's release year when the release date starts with four decimal digits
HasYear(movie) ==
    LET y == ReleaseYear(movie)
    IN  Len(y) = 4 /\ \A j \in 1..4 : IsDecimal(y[j])

\* C28: over the indexes built from the catalog, the query naming an actor, a
\* director, a production company or a genre of a record returns that record,
\* and so does the query "in YYYY" for the record's release year.
C28_NamedValueFindsRecord ==
    LET catalog == CatalogOf
    IN  \A i \in 1..Len(catalog) :
           /\ \A f \in ValueFacets : \A v \in FacetValues(catalog[i], f) :
                 Finds(NamingQuery(PhraseOf(f), v), catalog[i])
           /\ HasYear(catalog[i]) =>
                 Finds(NamingQuery(W_in, ReleaseYear(catalog[i])), catalog[i])



(***************************************************************************)
(* Properties of the login state and of the admin pages (SpecPages).       *)
(***************************************************************************)
\* C23: once a run of loadmovie.py has succeeded, the collection holds one
\* entry for every record of the catalog file it read, and no other entry:
\* as many entries as records, each record's id and flattened metadata
\* among them.
C23_OneEntryPerRecord ==
    (job.page = "Load_All_Movies" /\ job.stage = "succeeded") =>
        /\ Len(collection) = Len(job.catalog)
        /\ \A i \in 1..Len(job.catalog) : \E e \in 1..Len(collection) :
              /\ collection[e].id = MovieId(job.catalog[i])
              /\ collection[e].metadata = Flatten(job.catalog[i])

\* the session is logged in as admin and was within the timeout when the
\* script last ran
AdminInTime ==
    /\ auth.authenticated
    /\ is_admin(auth)
    /\ view.time - auth.login_time.n <= SESSION_TIMEOUT

\* C24: the body of an admin page is rendered, and a job run is in progress,
\* only for a session that is logged in as admin and had not timed out when
\* the script ran; a session that is not logged in or has the role normal has
\* no job running.
C24_AdminBodyForAdminOnly ==
    /\ (view.page \in AdminPages /\ view.shown = "body") => AdminInTime
    /\ Running => AdminInTime /\ view.page = job.page
    /\ (~auth.authenticated \/ auth.role = Word("normal")) => ~Running

\* a job run began with the login that an admin made on the admin page
C24_Witness == Running /\ view.kind = "login" /\ view.shown = "body"

\* the normal user is refused on an admin page while the processing flag is set
C24_WitnessDenied ==
    /\ view.page \in AdminPages
    /\ view.shown = "denied"
    /\ auth.role = Word("normal")
    /\ processing

\* a script run that began with the session logged in, at a page load, a
\* click or a rerun
RanLoggedIn == view.kind \in {"load", "logout", "start", "rerun"} /\ view.before.authenticated

\* C25: a script run for a session whose login is more than SESSION_TIMEOUT
\* minutes old logs the session out and renders the login page, not the
\* page's content; for a younger login the run leaves the login state as it was.
C25_TimeoutAtPageLoad ==
    RanLoggedIn =>
        IF view.time - view.before.login_time.n > SESSION_TIMEOUT
        THEN auth = LoggedOut /\ view.shown = "expired"
        ELSE \/ view.kind = "logout"
             \/ auth = view.before /\ view.shown \in {"body", "denied"}

\* a page load found the session timed out
C25_Witness == RanLoggedIn /\ view.kind = "load" /\ view.shown = "expired"

\* a page load found the session exactly SESSION_TIMEOUT minutes old
C25_WitnessWithin ==
    /\ RanLoggedIn
    /\ view.kind = "load"
    /\ view.time - view.before.login_time.n = SESSION_TIMEOUT
    /\ auth.authenticated

\* C29: the login state is consistent: when authenticated, username is a key
\* of CREDENTIALS, role and user_name are that user's and login_time is set;
\* when not authenticated, the four fields are None; a login attempt that
\* failed left the login state as it was.
C29_SessionStateConsistent ==
    /\ auth.authenticated =>
          /\ auth.username.t = "str"
          /\ auth.username.s \in DOMAIN CREDENTIALS
          /\ auth.role = Word(CREDENTIALS[auth.username.s].role)
          /\ auth.user_name = Word(CREDENTIALS[auth.username.s].name)
          /\ auth.login_time # None
    /\ ~auth.authenticated => auth = LoggedOut
    /\ (view.kind = "login" /\ view.shown = "login") => auth = view.before

\* a login attempt failed, some time after the browser session began
C29_Witness == view.kind = "login" /\ view.shown = "login" /\ view.time > 0

\* a second login, after a logout or a timeout
C29_WitnessAgain == auth.authenticated /\ auth.login_time.n > 0

\* C30: in a run of the Extract All Movies job the index build is started
\* only once the extraction has succeeded, never when it failed, and
\* processing is False when the run has ended, succeeded or failed.
C30_IndexOnlyAfterExtraction ==
    job.page = "Extract_All_Movies" =>
        /\ job.index # "none" => job.extract = "ok"
        /\ job.extract = "failed" => job.index = "none" /\ job.stage = "failed"
        /\ job.stage \in {"succeeded", "failed"} => ~processing

\* a run ended with both steps done
C30_Witness == job.page = "Extract_All_Movies" /\ job.stage = "succeeded" /\ job.index = "ok"

\* a run ended with the extraction failed
C30_WitnessFailed == job.page = "Extract_All_Movies" /\ job.extract = "failed"

=============================================================================
